---- MODULE Spec2Model ----
(***************************************************************************)
(* Sitemap indexing / scraping / AI-response caching pipeline over a       *)
(* key-value store (redis-langcachy).                                      *)
(*                                                                         *)
(* The module holds fifteen specifications over one set of variables:      *)
(*   SpecResolve  - SitemapParser.parseRecursive, one step per fetch       *)
(*   SpecGraph    - parseRecursive on every graph of sitemap indexes       *)
(*   SpecChain    - PageScraper.scrapePage, one step per strategy attempt  *)
(*   SpecTimeout  - scrapePage with upstreams that never answer            *)
(*   SpecCache    - scrapeAndCache / processPage / processWithAI /         *)
(*                  clearCache / deleteDomainData run concurrently         *)
(*   SpecRetry    - processWithAI callers with failed completions          *)
(*   SpecClear    - processWithAI, processPage and clearCache callers      *)
(*   SpecSemantic - scrapeAndCache with LangCacheService.indexPageContent  *)
(*   SpecPipeline - UrlIndexer.indexSitemap, ProcessingPipeline.run and    *)
(*                  deleteDomainData                                       *)
(*   SpecBatch    - indexSitemap with the default batch size               *)
(*   SpecScrape   - PageScraper.scrapeMultiple called on its own           *)
(*   SpecList     - RedisService.getUrlsByDomain on every small index      *)
(*   SpecDiscover - UrlIndexer.autoDiscoverAndIndex                        *)
(*   SpecHash     - hashUrl, one step per round of SHA-256                 *)
(*   SpecNormalize - PageScraper.htmlToMarkdown on the converted text      *)
(*                                                                         *)
(* One action is one stretch of code between two awaited store or network  *)
(* replies.  Store commands are taken to succeed; the semantic index       *)
(* (indexPageContent), which swallows its own errors and is never read by  *)
(* the pipeline, changes in SpecSemantic only.                             *)
(***************************************************************************)
EXTENDS Integers, Sequences, FiniteSets, TLC

(***************************************************************************)
(* Sitemap resolution (src/lib/services/sitemap-parser.ts)                 *)
(***************************************************************************)
VARIABLES web, rMaxDepth, rStack, rResult, rFetched

resVars == <<web, rMaxDepth, rStack, rResult, rFetched>>

\* sitemap documents the resolver can be pointed at, and page locations
Sitemaps == {"s0", "s1", "s2"}
Pages == {"p1", "p2"}
RootSitemap == "s0"
\* sitemap URLs that are only ever served as a urlset or an error
LeafSitemaps == {"s2"}

\* bounds of the sitemap documents that are enumerated
MaxUrlsetLen == 1
MaxChildren == 2
MaxDepthArg == 3

SeqsUpTo(S, n) == UNION {[1..k -> S] : k \in 0..n}

\* what fetching and parsing one sitemap URL yields: an error, a urlset or
\* a sitemap index
LeafDocs ==
  {[kind |-> "fail", urls |-> <<>>, children |-> <<>>]}
  \cup {[kind |-> "urlset", urls |-> us, children |-> <<>>] :
          us \in SeqsUpTo(Pages, MaxUrlsetLen)}

SitemapDocs ==
  LeafDocs
  \cup {[kind |-> "index", urls |-> <<>>, children |-> cs] :
          cs \in SeqsUpTo(Sitemaps, MaxChildren)}

Webs == {w \in [Sitemaps -> SitemapDocs] :
           \A s \in LeafSitemaps : w[s] \in LeafDocs}

DepthError == "Maximum sitemap depth reached"
ParseError == "Sitemap parsing failed"

NoResult == [done |-> FALSE, ok |-> FALSE, urls |-> <<>>, err |-> ""]
Returned(us) == [done |-> TRUE, ok |-> TRUE, urls |-> us, err |-> ""]
Thrown(e) == [done |-> TRUE, ok |-> FALSE, urls |-> <<>>, err |-> e]

\* parseSitemap: the ParsedSitemap of a document, ok = FALSE when it throws
parseSitemap(doc) ==
  IF doc.kind = "fail"
  THEN [ok |-> FALSE, urls |-> <<>>, sitemapIndexUrls |-> <<>>]
  ELSE [ok |-> TRUE, urls |-> doc.urls, sitemapIndexUrls |-> doc.children]

\* a call entered at the depth of the outermost one
FrameDepthZero(u, d) == [url |-> u, depth |-> 0, phase |-> "enter",
                         kids |-> <<>>, acc |-> <<>>]

\* the frame of parseRecursive(u, maxDepth, d) when it is entered
Frame(u, d) == [url |-> u, depth |-> d, phase |-> "enter",
                kids |-> <<>>, acc |-> <<>>]

Top == rStack[Len(rStack)]
Below == SubSeq(rStack, 1, Len(rStack) - 1)
SetTop(stk, f) == [stk EXCEPT ![Len(stk)] = f]

\* a call returns `us` to its caller: the caller's loop appends it
\* (allUrls.push(...childUrls)); the outermost call resolves the promise
ReturnUp(us) ==
  IF Len(rStack) = 1
  THEN /\ rStack' = <<>>
       /\ rResult' = Returned(us)
  ELSE /\ rStack' = SetTop(Below, [Below[Len(Below)] EXCEPT !.acc = @ \o us])
       /\ rResult' = rResult

\* a call throws `e`: a caller's loop catches and logs it, the outermost
\* call rejects
ThrowUpSwallowNone(e) ==
  /\ rStack' = <<>>
  /\ rResult' = Thrown(e)

ThrowUp(e) ==
  IF Len(rStack) = 1
  THEN /\ rStack' = <<>>
       /\ rResult' = Thrown(e)
  ELSE /\ rStack' = Below
       /\ rResult' = rResult

\* parseRecursive up to and including the fetch: depth guard, parseSitemap,
\* and the choice between the index loop and returning parsed.urls
parseRecursiveEnter ==
  /\ rStack # <<>>
  /\ Top.phase = "enter"
  /\ IF Top.depth >= rMaxDepth
     THEN /\ ThrowUp(DepthError)
          /\ UNCHANGED rFetched
     ELSE LET parsed == parseSitemap(web[Top.url]) IN
          /\ rFetched' = Append(rFetched, [url |-> Top.url, depth |-> Top.depth])
          /\ IF ~parsed.ok
             THEN ThrowUp(ParseError)
             ELSE IF Len(parsed.sitemapIndexUrls) > 0
                  THEN /\ rStack' = SetTop(rStack,
                              [Top EXCEPT !.phase = "loop",
                                          !.kids = parsed.sitemapIndexUrls])
                       /\ UNCHANGED rResult
                  ELSE ReturnUp(parsed.urls)
  /\ UNCHANGED <<web, rMaxDepth>>

\* one iteration of the loop over parsed.sitemapIndexUrls, or its end
parseRecursiveLoop ==
  /\ rStack # <<>>
  /\ Top.phase = "loop"
  /\ IF Top.kids = <<>>
     THEN ReturnUp(Top.acc)
     ELSE /\ rStack' = Append(SetTop(rStack, [Top EXCEPT !.kids = Tail(@)]),
                              Frame(Head(Top.kids), Top.depth + 1))
          /\ UNCHANGED rResult
  /\ UNCHANGED <<web, rMaxDepth, rFetched>>

\* parseRecursive(RootSitemap, rMaxDepth) is called on some web
ResolveCalled ==
  /\ web \in Webs
  /\ rMaxDepth \in 0..MaxDepthArg
  /\ rStack = <<Frame(RootSitemap, 0)>>
  /\ rResult = NoResult
  /\ rFetched = <<>>

\* no resolution is running
ResolveIdle ==
  /\ web = [s \in Sitemaps |-> [kind |-> "fail", urls |-> <<>>, children |-> <<>>]]
  /\ rMaxDepth = 0
  /\ rStack = <<>>
  /\ rResult = NoResult
  /\ rFetched = <<>>

(***************************************************************************)
(* Fetch strategy chain: PageScraper.scrapePage (src/unnamed/part_008)     *)
(***************************************************************************)
VARIABLES cOpts, cPc, cAttempt, cLastError, cLog, cResult

chainVars == <<cOpts, cPc, cAttempt, cLastError, cLog, cResult>>

\* largest `retries` option that is enumerated
MaxRetries == 3

\* what an upstream can hand back for a page: display name and markdown
EmptyDoc == [pageName |-> "Untitled", markdown |-> ""]
UpstreamDocs == {EmptyDoc,
                 [pageName |-> "T1", markdown |-> "m1"],
                 [pageName |-> "T2", markdown |-> "m2"]}
FetchErrors == {"HTTP 500", "This operation was aborted"}
AllFailedError == "All scraping methods failed"

ScrapingOptions ==
  [useJinaReader : BOOLEAN, useBrowser : BOOLEAN,
   retries : 0..MaxRetries, includeMetadata : BOOLEAN]

NoScrape == [done |-> FALSE, success |-> FALSE, method |-> "",
             pageName |-> "", markdown |-> "", error |-> ""]
ScrapeOk(m, doc) == [done |-> TRUE, success |-> TRUE, method |-> m,
                     pageName |-> doc.pageName, markdown |-> doc.markdown,
                     error |-> ""]
ScrapeFailed(m, e) == [done |-> TRUE, success |-> FALSE, method |-> m,
                       pageName |-> "Unknown", markdown |-> "", error |-> e]

\* markdown produced by each strategy from what the upstream served:
\* the reader service's body is used as is; the browser strategy and
\* htmlToMarkdown with includeMetadata prepend a "# title / **URL:**" header
WithHeader(doc) ==
  IF doc.markdown = "" THEN [doc EXCEPT !.markdown = "hdr"] ELSE doc
htmlToMarkdown(doc, includeMetadata) ==
  IF includeMetadata THEN WithHeader(doc) ELSE doc

\* the strategy scrapePage turns to once those before `after` are over
NextStrategyAlwaysFetch(opts, after) == "fetch"

NextStrategy(opts, after) ==
  IF after = "start" /\ opts.useJinaReader THEN "jina"
  ELSE IF after \in {"start", "jina"} /\ opts.useBrowser THEN "browser"
  ELSE "fetch"

Attempt(m, ok) == [method |-> m, ok |-> ok, delay |-> 0]
Wait(ms) == [method |-> "wait", ok |-> TRUE, delay |-> ms]

RECURSIVE Pow2(_)
Pow2(n) == IF n = 0 THEN 1 ELSE 2 * Pow2(n - 1)

\* scrapePage(url, opts) is entered
ChainStart(opts) ==
  /\ cOpts' = opts
  /\ cPc' = NextStrategy(opts, "start")
  /\ cAttempt' = 0
  /\ cLastError' = ""
  /\ cLog' = <<>>
  /\ cResult' = NoScrape

\* Strategy 1: scrapeWithJina
scrapeWithJina(docs) ==
  /\ cPc = "jina"
  /\ \/ \E doc \in docs :
          /\ cResult' = ScrapeOk("jina", doc)
          /\ cLog' = Append(cLog, Attempt("jina", TRUE))
          /\ cPc' = "done"
     \/ /\ cLog' = Append(cLog, Attempt("jina", FALSE))
        /\ cPc' = NextStrategy(cOpts, "jina")
        /\ UNCHANGED cResult
  /\ UNCHANGED <<cOpts, cAttempt, cLastError>>

\* Strategy 2: scrapeWithBrowser
scrapeWithBrowser(docs) ==
  /\ cPc = "browser"
  /\ \/ \E doc \in docs :
          /\ cResult' = ScrapeOk("browser", WithHeader(doc))
          /\ cLog' = Append(cLog, Attempt("browser", TRUE))
          /\ cPc' = "done"
     \/ /\ cLog' = Append(cLog, Attempt("browser", FALSE))
        /\ cPc' = NextStrategy(cOpts, "browser")
        /\ UNCHANGED cResult
  /\ UNCHANGED <<cOpts, cAttempt, cLastError>>

\* Strategy 3: one iteration of the direct-fetch loop, or its exit
scrapeWithFetch(docs, errors) ==
  /\ cPc = "fetch"
  /\ IF cAttempt < cOpts.retries
     THEN \/ \E doc \in docs :
               /\ cResult' = ScrapeOk("fetch",
                                htmlToMarkdown(doc, cOpts.includeMetadata))
               /\ cLog' = Append(cLog, Attempt("fetch", TRUE))
               /\ cPc' = "done"
               /\ UNCHANGED <<cAttempt, cLastError>>
          \/ \E e \in errors :
               /\ cLastError' = e
               /\ cLog' = Append(cLog, Attempt("fetch", FALSE))
               /\ IF cAttempt < cOpts.retries - 1
                  THEN /\ cPc' = "backoff"
                       /\ UNCHANGED cAttempt
                  ELSE /\ cPc' = "fetch"
                       /\ cAttempt' = cAttempt + 1
               /\ UNCHANGED cResult
     ELSE /\ cResult' = ScrapeFailed("fetch",
                 IF cLastError # "" THEN cLastError ELSE AllFailedError)
          /\ cPc' = "done"
          /\ UNCHANGED <<cAttempt, cLastError, cLog>>
  /\ UNCHANGED cOpts

\* a sleep of one second whatever the attempt
scrapeBackoffFlat ==
  /\ cPc = "backoff"
  /\ cLog' = Append(cLog, Wait(1000))
  /\ cAttempt' = cAttempt + 1
  /\ cPc' = "fetch"
  /\ UNCHANGED <<cOpts, cLastError, cResult>>

\* the exponential backoff sleep between two direct-fetch attempts
scrapeBackoff ==
  /\ cPc = "backoff"
  /\ cLog' = Append(cLog, Wait(1000 * Pow2(cAttempt)))
  /\ cAttempt' = cAttempt + 1
  /\ cPc' = "fetch"
  /\ UNCHANGED <<cOpts, cLastError, cResult>>

\* what the AbortController's signal makes fetch throw
AbortError == "This operation was aborted"

\* Strategy 1 with an upstream that never answers: fetch(jinaUrl) is given
\* no signal, and the await goes on
scrapeWithJinaNoReply ==
  /\ cPc = "jina"
  /\ cPc' = "jinaWaiting"
  /\ UNCHANGED <<cOpts, cAttempt, cLastError, cLog, cResult>>

\* Strategy 2 with a page that never loads: page.goto waits under `timeout`
scrapeWithBrowserNoReply ==
  /\ cPc = "browser"
  /\ cPc' = "browserWaiting"
  /\ UNCHANGED <<cOpts, cAttempt, cLastError, cLog, cResult>>

\* page.goto throws at the timeout; the catch returns a failed result
scrapeWithBrowserTimeout ==
  /\ cPc = "browserWaiting"
  /\ cLog' = Append(cLog, Attempt("browser", FALSE))
  /\ cPc' = NextStrategy(cOpts, "browser")
  /\ UNCHANGED <<cOpts, cAttempt, cLastError, cResult>>

\* Strategy 3 with an upstream that never answers: the attempt's fetch
\* waits with the controller's signal
scrapeWithFetchNoReply ==
  /\ cPc = "fetch"
  /\ cAttempt < cOpts.retries
  /\ cPc' = "fetchWaiting"
  /\ UNCHANGED <<cOpts, cAttempt, cLastError, cLog, cResult>>

\* setTimeout(() => controller.abort(), timeout) fires: fetch throws and
\* the attempt ends in the catch like any failed attempt
scrapeWithFetchAbort ==
  /\ cPc = "fetchWaiting"
  /\ cLastError' = AbortError
  /\ cLog' = Append(cLog, Attempt("fetch", FALSE))
  /\ IF cAttempt < cOpts.retries - 1
     THEN /\ cPc' = "backoff"
          /\ UNCHANGED cAttempt
     ELSE /\ cPc' = "fetch"
          /\ cAttempt' = cAttempt + 1
  /\ UNCHANGED <<cOpts, cResult>>

\* scrapePage is called with some options
ChainCalled ==
  /\ cOpts \in ScrapingOptions
  /\ cPc = NextStrategy(cOpts, "start")
  /\ cAttempt = 0
  /\ cLastError = ""
  /\ cLog = <<>>
  /\ cResult = NoScrape

\* no scrapePage call is running
ChainIdle ==
  /\ cOpts = [useJinaReader |-> TRUE, useBrowser |-> FALSE,
              retries |-> 0, includeMetadata |-> TRUE]
  /\ cPc = "idle"
  /\ cAttempt = 0
  /\ cLastError = ""
  /\ cLog = <<>>
  /\ cResult = NoScrape

(***************************************************************************)
(* Content store: RedisService (src/unnamed/part_010), RedisKeys and the   *)
(* record types (src/unnamed/part_008), hashUrl (src/unnamed/part_007)     *)
(***************************************************************************)
VARIABLES urlRec, urlList, content, prompt, response, sitemapMeta, status, now

storeVars == <<urlRec, urlList, content, prompt, response, sitemapMeta,
               status, now>>

Urls == {"u1", "u2", "u3"}
Keys == {"k1", "k2", "k3"}
Domains == {"dA", "dB"}
\* latest value of Date.now() that is distinguished
MaxClock == 3

\* hashUrl: sha256 prefix of the literal URL string, one key per URL
hashUrl(u) == CASE u = "u1" -> "k1" [] u = "u2" -> "k2" [] u = "u3" -> "k3"

NoUrlRecord == [present |-> FALSE, url |-> "", domain |-> "", indexed |-> 0,
                processed |-> FALSE, error |-> ""]
NoContent == [present |-> FALSE, url |-> "", pageName |-> "", markdown |-> ""]
NoPrompt == [present |-> FALSE, pageName |-> "", url |-> "", content |-> ""]
NoResponse == [present |-> FALSE, prompt |-> NoPrompt, response |-> ""]
NoMeta == [present |-> FALSE, sitemapUrl |-> "", totalUrls |-> 0,
           processedUrls |-> 0, status |-> ""]
NoStatus == [present |-> FALSE, status |-> "", total |-> 0, completed |-> 0,
             failed |-> 0, currentUrl |-> "", error |-> ""]
\* a ProcessingStatus object as updateProcessingStatus stores it
Status(st, total, completed, failed, currentUrl, error) ==
  [present |-> TRUE, status |-> st, total |-> total, completed |-> completed,
   failed |-> failed, currentUrl |-> currentUrl, error |-> error]

EmptyStore ==
  /\ urlRec = [k \in Keys |-> NoUrlRecord]
  /\ urlList = [d \in Domains |-> [k \in Keys |-> 0]]
  /\ content = [k \in Keys |-> NoContent]
  /\ prompt = [k \in Keys |-> NoPrompt]
  /\ response = [k \in Keys |-> NoResponse]
  /\ sitemapMeta = [d \in Domains |-> NoMeta]
  /\ status = [d \in Domains |-> NoStatus]
  /\ now = 1

\* members of the sorted set urls:{domain}; score 0 stands for "not a member"
Members(d) == {k \in Keys : urlList[d][k] > 0}

\* getUrlRecord / getPageContent / getPromptCache / getResponseCache
getUrlRecord(k) == urlRec[k]
getPageContent(k) == content[k]
getPromptCache(k) == prompt[k]
getResponseCache(k) == response[k]

\* getUrlCount: ZCARD urls:{domain}
getUrlCount(d) == Cardinality(Members(d))

\* getDomains: SCAN urls:* and sitemap:* ; an empty sorted set has no key
getDomains == {d \in Domains : Members(d) # {}}
              \cup {d \in Domains : sitemapMeta[d].present}

\* rank of a key inside urls:{domain}: by score, ties by member
KeyLess(a, b) ==
  CASE a = b -> FALSE
    [] a = "k1" -> TRUE
    [] a = "k2" -> b = "k3"
    [] OTHER -> FALSE
ZBefore(d, a, b) ==
  \/ urlList[d][a] < urlList[d][b]
  \/ urlList[d][a] = urlList[d][b] /\ KeyLess(a, b)
ZRank(d, k) == Cardinality({j \in Members(d) : ZBefore(d, j, k)})

\* ZRANGE urls:{domain} start stop, as a sequence in rank order
\* (a negative index counts from the end, -1 being the last member)
zRange(d, start, stop) ==
  LET n == Cardinality(Members(d))
      from == IF start >= 0 THEN start
              ELSE IF n + start > 0 THEN n + start ELSE 0
      to == IF stop < 0 THEN n + stop ELSE stop
      last == IF to < n - 1 THEN to ELSE n - 1
      len == IF last >= from THEN last - from + 1 ELSE 0
  IN [i \in 1..len |->
        CHOOSE k \in Members(d) : ZRank(d, k) = from + i - 1]

RECURSIVE SeqFilterPresent(_)
SeqFilterPresent(ks) ==
  IF ks = <<>> THEN <<>>
  ELSE IF urlRec[Head(ks)].present
       THEN <<urlRec[Head(ks)]>> \o SeqFilterPresent(Tail(ks))
       ELSE SeqFilterPresent(Tail(ks))

\* getUrlsByDomain(domain, limit, offset = 0): records of the hashes at
\* ranks offset .. offset+limit-1, missing records dropped
getUrlsByDomain(d, limit, offset) ==
  SeqFilterPresent(zRange(d, offset, offset + limit - 1))

\* a caller's getUrlsByDomain call and what it got
VARIABLE listing

ListIdle ==
  listing = [done |-> FALSE, domain |-> "", limit |-> 0, offset |-> 0,
             records |-> <<>>]

\* getUrlsByDomain(d, limit, offset) is called and returns its records
getUrlsByDomainCall(d, limit, offset) ==
  /\ ~listing.done
  /\ listing' = [done |-> TRUE, domain |-> d, limit |-> limit,
                 offset |-> offset,
                 records |-> getUrlsByDomain(d, limit, offset)]

\* the caller has taken the records
getUrlsByDomainReturn ==
  /\ listing.done
  /\ listing' = [done |-> FALSE, domain |-> "", limit |-> 0, offset |-> 0,
                 records |-> <<>>]

\* generatePrompt: a text embedding pageName, url and the markdown
generatePrompt(pc) ==
  [present |-> TRUE, pageName |-> pc.pageName, url |-> pc.url,
   content |-> pc.markdown]

\* TTL of content:{key} (7 days) runs out
contentExpires(k) ==
  /\ content[k].present
  /\ content' = [content EXCEPT ![k] = NoContent]
  /\ UNCHANGED <<urlRec, urlList, prompt, response, sitemapMeta, status, now>>

(***************************************************************************)
(* deleteDomainData (src/unnamed/part_010)                                 *)
(***************************************************************************)
VARIABLES pgPc, pgDomain, pgHashes

purgeVars == <<pgPc, pgDomain, pgHashes>>

PurgeIdle ==
  /\ pgPc = "idle"
  /\ pgDomain = "dA"
  /\ pgHashes = {}

\* deleteDomainData(d) up to the reply of ZRANGE urls:{d} 0 -1
deleteDomainDataRead(d) ==
  /\ pgPc = "idle"
  /\ pgDomain' = d
  /\ pgHashes' = Members(d)
  /\ pgPc' = "delete"
  /\ UNCHANGED storeVars

\* the DEL commands, issued together: per hash url:, content:, prompt:,
\* response:, then sitemap:{d}, urls:{d}, status:{d}
DeleteKeysKeepList(d, hs) ==
  /\ urlRec' = [k \in Keys |-> IF k \in hs THEN NoUrlRecord ELSE urlRec[k]]
  /\ content' = [k \in Keys |-> IF k \in hs THEN NoContent ELSE content[k]]
  /\ prompt' = [k \in Keys |-> IF k \in hs THEN NoPrompt ELSE prompt[k]]
  /\ response' = [k \in Keys |-> IF k \in hs THEN NoResponse ELSE response[k]]
  /\ sitemapMeta' = [sitemapMeta EXCEPT ![d] = NoMeta]
  /\ urlList' = [urlList EXCEPT ![d] = [k \in Keys |->
                    IF k \in hs THEN 0 ELSE urlList[d][k]]]
  /\ status' = [status EXCEPT ![d] = NoStatus]

\* the same without the DEL of response:{hash}
DeleteKeysKeepResponse(d, hs) ==
  /\ urlRec' = [k \in Keys |-> IF k \in hs THEN NoUrlRecord ELSE urlRec[k]]
  /\ content' = [k \in Keys |-> IF k \in hs THEN NoContent ELSE content[k]]
  /\ prompt' = [k \in Keys |-> IF k \in hs THEN NoPrompt ELSE prompt[k]]
  /\ response' = response
  /\ sitemapMeta' = [sitemapMeta EXCEPT ![d] = NoMeta]
  /\ urlList' = [urlList EXCEPT ![d] = [k \in Keys |-> 0]]
  /\ status' = [status EXCEPT ![d] = NoStatus]

DeleteKeys(d, hs) ==
  /\ urlRec' = [k \in Keys |-> IF k \in hs THEN NoUrlRecord ELSE urlRec[k]]
  /\ content' = [k \in Keys |-> IF k \in hs THEN NoContent ELSE content[k]]
  /\ prompt' = [k \in Keys |-> IF k \in hs THEN NoPrompt ELSE prompt[k]]
  /\ response' = [k \in Keys |-> IF k \in hs THEN NoResponse ELSE response[k]]
  /\ sitemapMeta' = [sitemapMeta EXCEPT ![d] = NoMeta]
  /\ urlList' = [urlList EXCEPT ![d] = [k \in Keys |-> 0]]
  /\ status' = [status EXCEPT ![d] = NoStatus]

deleteDomainDataDelete ==
  /\ pgPc = "delete"
  /\ DeleteKeys(pgDomain, pgHashes)
  /\ pgPc' = "idle"
  /\ pgHashes' = {}
  /\ pgDomain' = "dA"
  /\ UNCHANGED now

(***************************************************************************)
(* Cache-aware processor: LangCacheService.processPage / processWithAI /   *)
(* clearCache (src/lib/services/langcache-service.ts)                      *)
(***************************************************************************)
VARIABLES aPc, aUrl, aContent, aPrompt, aResp, aCalled, aResult, clPc, clUrl,
          clHist, aHist

aiVars == <<aPc, aUrl, aContent, aPrompt, aResp, aCalled, aResult>>
clearVars == <<clPc, clUrl>>

\* concurrent callers of processWithAI
Procs == {"a1", "a2"}
\* texts a completion function can return
Responses == {"r1", "r2"}
ContentMissing == "Page content not found in cache"
CompletionError == "completion failed"

NoAiResult == [done |-> FALSE, success |-> FALSE, response |-> "",
               fromCache |-> FALSE, error |-> ""]
AiOk(r, cached) == [done |-> TRUE, success |-> TRUE, response |-> r,
                    fromCache |-> cached, error |-> ""]
AiFailed(e) == [done |-> TRUE, success |-> FALSE, response |-> "",
                fromCache |-> FALSE, error |-> e]

AiIdle ==
  /\ aPc = [p \in Procs |-> "idle"]
  /\ aUrl = [p \in Procs |-> "u1"]
  /\ aContent = [p \in Procs |-> NoContent]
  /\ aPrompt = [p \in Procs |-> NoPrompt]
  /\ aResp = [p \in Procs |-> ""]
  /\ aCalled = [p \in Procs |-> 0]
  /\ aResult = [p \in Procs |-> NoAiResult]

\* what is remembered of finished clearCache calls: the keys cleared since
\* the last call or response write for them, and the callers running the
\* first processWithAI after such a clear
NoClHist == [keys |-> {}, procs |-> {}]

ClearIdle ==
  /\ clPc = "idle"
  /\ clUrl = "u1"
  /\ clHist = NoClHist

\* getCachedResponse: the stored entry, or null
getCachedResponseNever(u) == NoResponse

getCachedResponse(u) == getResponseCache(hashUrl(u))

\* getCachedPrompt: cached?.prompt ?? null
getCachedPromptNever(u) == NoPrompt

getCachedPrompt(u) == getPromptCache(hashUrl(u))

\* storeResponseCache: SET response:{key}
storeResponseCacheIfAbsent(k, entry) ==
  response' = [response EXCEPT ![k] = IF @.present THEN @ ELSE entry]

storeResponseCache(k, entry) ==
  response' = [response EXCEPT ![k] = entry]

\* processWithAI(u, aiFunction) is entered by caller p
processWithAICall(p, u) ==
  /\ aPc[p] = "idle"
  /\ aPc' = [aPc EXCEPT ![p] = "getResp"]
  /\ aUrl' = [aUrl EXCEPT ![p] = u]
  /\ aContent' = [aContent EXCEPT ![p] = NoContent]
  /\ aPrompt' = [aPrompt EXCEPT ![p] = NoPrompt]
  /\ aResp' = [aResp EXCEPT ![p] = ""]
  /\ aCalled' = [aCalled EXCEPT ![p] = 0]
  /\ aResult' = [aResult EXCEPT ![p] = NoAiResult]

\* "Check for cached response first"
processWithAICheck(p) ==
  /\ aPc[p] = "getResp"
  /\ LET cachedResponse == getCachedResponse(aUrl[p]) IN
     IF cachedResponse.present
     THEN /\ aResult' = [aResult EXCEPT ![p] = AiOk(cachedResponse.response, TRUE)]
          /\ aPc' = [aPc EXCEPT ![p] = "done"]
     ELSE /\ aPc' = [aPc EXCEPT ![p] = "getContent"]
          /\ UNCHANGED aResult
  /\ UNCHANGED <<aUrl, aContent, aPrompt, aResp, aCalled, storeVars>>

\* processPage: "Get page content from Redis"
processPageContent(p) ==
  /\ aPc[p] = "getContent"
  /\ LET pageContent == getPageContent(hashUrl(aUrl[p])) IN
     IF ~pageContent.present
     THEN /\ aResult' = [aResult EXCEPT ![p] = AiFailed(ContentMissing)]
          /\ aPc' = [aPc EXCEPT ![p] = "done"]
          /\ UNCHANGED aContent
     ELSE /\ aContent' = [aContent EXCEPT ![p] = pageContent]
          /\ aPc' = [aPc EXCEPT ![p] = "getPrompt"]
          /\ UNCHANGED aResult
  /\ UNCHANGED <<aUrl, aPrompt, aResp, aCalled, storeVars>>

\* processPage: "Check if prompt is already cached", else generatePrompt
processPagePrompt(p) ==
  /\ aPc[p] = "getPrompt"
  /\ LET cachedPrompt == getCachedPrompt(aUrl[p]) IN
     IF cachedPrompt.present
     THEN /\ aPrompt' = [aPrompt EXCEPT ![p] = cachedPrompt]
          /\ aPc' = [aPc EXCEPT ![p] = "callAI"]
     ELSE /\ aPrompt' = [aPrompt EXCEPT ![p] = generatePrompt(aContent[p])]
          /\ aPc' = [aPc EXCEPT ![p] = "storePrompt"]
  /\ UNCHANGED <<aUrl, aContent, aResp, aCalled, aResult, storeVars>>

\* processPage: cachePrompt -> storePromptCache
processPageStore(p) ==
  /\ aPc[p] = "storePrompt"
  /\ prompt' = [prompt EXCEPT ![hashUrl(aUrl[p])] = aPrompt[p]]
  /\ aPc' = [aPc EXCEPT ![p] = "callAI"]
  /\ UNCHANGED <<aUrl, aContent, aPrompt, aResp, aCalled, aResult>>
  /\ UNCHANGED <<urlRec, urlList, content, response, sitemapMeta, status, now>>

\* a completion that is tried a second time when it throws
processWithAIInvokeTwice(p, texts) ==
  /\ aPc[p] = "callAI"
  /\ \/ \E r \in texts :
          /\ aResp' = [aResp EXCEPT ![p] = r]
          /\ aCalled' = [aCalled EXCEPT ![p] = @ + 1]
          /\ aPc' = [aPc EXCEPT ![p] = "storeResp"]
          /\ UNCHANGED aResult
     \/ /\ aResult' = [aResult EXCEPT ![p] = AiFailed(CompletionError)]
        /\ aCalled' = [aCalled EXCEPT ![p] = @ + 2]
        /\ aPc' = [aPc EXCEPT ![p] = "done"]
        /\ UNCHANGED aResp
  /\ UNCHANGED <<aUrl, aContent, aPrompt, storeVars>>

\* "Call AI function with prompt": it returns a text or throws
processWithAIInvoke(p, texts) ==
  /\ aPc[p] = "callAI"
  /\ aCalled' = [aCalled EXCEPT ![p] = @ + 1]
  /\ \/ \E r \in texts :
          /\ aResp' = [aResp EXCEPT ![p] = r]
          /\ aPc' = [aPc EXCEPT ![p] = "storeResp"]
          /\ UNCHANGED aResult
     \/ /\ aResult' = [aResult EXCEPT ![p] = AiFailed(CompletionError)]
        /\ aPc' = [aPc EXCEPT ![p] = "done"]
        /\ UNCHANGED aResp
  /\ UNCHANGED <<aUrl, aContent, aPrompt, storeVars>>

\* "Cache the response" with a prompt that leaves the page text out
processWithAIStoreBare(p) ==
  /\ aPc[p] = "storeResp"
  /\ storeResponseCache(hashUrl(aUrl[p]),
        [present |-> TRUE, prompt |-> [aPrompt[p] EXCEPT !.content = ""],
         response |-> aResp[p]])
  /\ aResult' = [aResult EXCEPT ![p] = AiOk(aResp[p], FALSE)]
  /\ aPc' = [aPc EXCEPT ![p] = "done"]
  /\ UNCHANGED <<aUrl, aContent, aPrompt, aResp, aCalled>>
  /\ UNCHANGED <<urlRec, urlList, content, prompt, sitemapMeta, status, now>>

\* "Cache the response": cacheResponse -> storeResponseCache
processWithAIStore(p) ==
  /\ aPc[p] = "storeResp"
  /\ storeResponseCache(hashUrl(aUrl[p]),
        [present |-> TRUE, prompt |-> aPrompt[p], response |-> aResp[p]])
  /\ aResult' = [aResult EXCEPT ![p] = AiOk(aResp[p], FALSE)]
  /\ aPc' = [aPc EXCEPT ![p] = "done"]
  /\ UNCHANGED <<aUrl, aContent, aPrompt, aResp, aCalled>>
  /\ UNCHANGED <<urlRec, urlList, content, prompt, sitemapMeta, status, now>>

\* processPage(u) called on its own by caller p: content read, cached
\* prompt returned or a new one generated and stored, result returned
processPage(p, u) ==
  /\ \/ /\ aPc[p] = "idle"
        /\ aPc' = [aPc EXCEPT ![p] = "pageContent"]
        /\ aUrl' = [aUrl EXCEPT ![p] = u]
        /\ UNCHANGED <<aContent, aPrompt, aResult, storeVars>>
     \/ /\ aPc[p] = "pageContent" /\ aUrl[p] = u
        /\ LET pageContent == getPageContent(hashUrl(u)) IN
           IF ~pageContent.present
           THEN /\ aResult' = [aResult EXCEPT ![p] = AiFailed(ContentMissing)]
                /\ aPc' = [aPc EXCEPT ![p] = "done"]
                /\ UNCHANGED aContent
           ELSE /\ aContent' = [aContent EXCEPT ![p] = pageContent]
                /\ aPc' = [aPc EXCEPT ![p] = "pagePrompt"]
                /\ UNCHANGED aResult
        /\ UNCHANGED <<aUrl, aPrompt, storeVars>>
     \/ /\ aPc[p] = "pagePrompt" /\ aUrl[p] = u
        /\ LET cachedPrompt == getCachedPrompt(u) IN
           IF cachedPrompt.present
           THEN /\ aPrompt' = [aPrompt EXCEPT ![p] = cachedPrompt]
                /\ aResult' = [aResult EXCEPT ![p] = AiOk("", TRUE)]
                /\ aPc' = [aPc EXCEPT ![p] = "done"]
           ELSE /\ aPrompt' = [aPrompt EXCEPT ![p] = generatePrompt(aContent[p])]
                /\ aPc' = [aPc EXCEPT ![p] = "pageStore"]
                /\ UNCHANGED aResult
        /\ UNCHANGED <<aUrl, aContent, storeVars>>
     \/ /\ aPc[p] = "pageStore" /\ aUrl[p] = u
        /\ prompt' = [prompt EXCEPT ![hashUrl(u)] = aPrompt[p]]
        /\ aResult' = [aResult EXCEPT ![p] = AiOk("", FALSE)]
        /\ aPc' = [aPc EXCEPT ![p] = "done"]
        /\ UNCHANGED <<aUrl, aContent, aPrompt>>
        /\ UNCHANGED <<urlRec, urlList, content, response, sitemapMeta,
                       status, now>>
  /\ UNCHANGED <<aResp, aCalled>>

\* the caller has taken the result; the call's locals are gone
processWithAIReturn(p) ==
  /\ aPc[p] = "done"
  /\ aPc' = [aPc EXCEPT ![p] = "idle"]
  /\ aUrl' = [aUrl EXCEPT ![p] = "u1"]
  /\ aContent' = [aContent EXCEPT ![p] = NoContent]
  /\ aPrompt' = [aPrompt EXCEPT ![p] = NoPrompt]
  /\ aResp' = [aResp EXCEPT ![p] = ""]
  /\ aCalled' = [aCalled EXCEPT ![p] = 0]
  /\ aResult' = [aResult EXCEPT ![p] = NoAiResult]
  /\ UNCHANGED storeVars

\* clearCache(u): deletePromptCache, then deleteResponseCache
clearCachePrompt(u) ==
  /\ clPc = "idle"
  /\ clUrl' = u
  /\ prompt' = [prompt EXCEPT ![hashUrl(u)] = NoPrompt]
  /\ clPc' = "delResp"
  /\ UNCHANGED <<urlRec, urlList, content, response, sitemapMeta, status, now>>

clearCacheResponseKeep ==
  /\ clPc = "delResp"
  /\ clPc' = "idle"
  /\ clUrl' = "u1"
  /\ UNCHANGED storeVars

clearCacheResponse ==
  /\ clPc = "delResp"
  /\ response' = [response EXCEPT ![hashUrl(clUrl)] = NoResponse]
  /\ clPc' = "idle"
  /\ clUrl' = "u1"
  /\ UNCHANGED <<urlRec, urlList, content, prompt, sitemapMeta, status, now>>

\* clearCache has returned for clUrl
NoteCleared ==
  clHist' = [clHist EXCEPT !.keys = @ \cup {hashUrl(clUrl)}]

\* caller p enters processWithAI(u): the first call after a clear of u's key
NoteCall(p, u) ==
  clHist' = IF hashUrl(u) \in clHist.keys
            THEN [keys |-> clHist.keys \ {hashUrl(u)},
                  procs |-> clHist.procs \cup {p}]
            ELSE clHist

\* caller p has stored a response: other callers working on the key are no
\* longer the first to fill it after the clear
NoteStored(p) ==
  LET k == hashUrl(aUrl[p]) IN
  clHist' = [keys |-> clHist.keys \ {k},
             procs |-> {q \in clHist.procs : q = p \/ hashUrl(aUrl[q]) # k}]

\* caller p has taken its result
NoteReturn(p) ==
  clHist' = [clHist EXCEPT !.procs = @ \ {p}]

\* what is remembered of failed completions: the keys a completion has
\* failed for, and the callers that entered processWithAI after such a
\* failure for their key
NoAiHist == [failed |-> {}, later |-> {}]

AiHistIdle == aHist = NoAiHist

\* caller p's completion function has returned or thrown
NoteInvoked(p) ==
  aHist' = IF aPc'[p] = "done"
           THEN [aHist EXCEPT !.failed = @ \cup {hashUrl(aUrl[p])}]
           ELSE aHist

\* caller p enters processWithAI(u)
NoteEntered(p, u) ==
  aHist' = IF hashUrl(u) \in aHist.failed
           THEN [aHist EXCEPT !.later = @ \cup {p}]
           ELSE aHist

\* caller p has taken its result
NoteTaken(p) ==
  aHist' = [aHist EXCEPT !.later = @ \ {p}]

(***************************************************************************)
(* PageScraper.scrapeAndCache (src/unnamed/part_008)                       *)
(***************************************************************************)
VARIABLES sPc, sUrl, sResult, sPrev

scrVars == <<sPc, sUrl, sResult>>

\* the options every caller in the repository passes to scrapeMultiple:
\* retries 2, includeMetadata, and the defaults useJinaReader / no browser
CallerScrapeOptions ==
  [useJinaReader |-> TRUE, useBrowser |-> FALSE,
   retries |-> 2, includeMetadata |-> TRUE]

\* the latest scrapeAndCache call that produced its result and that result,
\* forgotten when the content of that URL's key is removed afterwards
NoPrev == [url |-> "", success |-> FALSE, markdown |-> ""]

ScrapeIdle ==
  /\ sPc = "idle"
  /\ sUrl = "u1"
  /\ sResult = NoScrape

ChainReset ==
  /\ cOpts' = [useJinaReader |-> TRUE, useBrowser |-> FALSE,
               retries |-> 0, includeMetadata |-> TRUE]
  /\ cPc' = "idle"
  /\ cAttempt' = 0
  /\ cLastError' = ""
  /\ cLog' = <<>>
  /\ cResult' = NoScrape

\* what is cached from a scrape result: "if (result.success && result.markdown)"
CacheableAlways(result) == result.success

Cacheable(result) == result.success /\ result.markdown # ""

\* scrapeAndCache(u, opts) is entered
scrapeAndCacheCall(u) ==
  /\ sPc = "idle"
  /\ sPc' = "check"
  /\ sUrl' = u
  /\ sResult' = NoScrape

\* "Check if content is already cached"; on a miss scrapePage is entered
scrapeAndCacheCheck(opts) ==
  /\ sPc = "check"
  /\ LET cached == getPageContent(hashUrl(sUrl)) IN
     IF cached.present
     THEN /\ sResult' = [done |-> TRUE, success |-> TRUE, method |-> "",
                         pageName |-> cached.pageName,
                         markdown |-> cached.markdown, error |-> ""]
          /\ sPc' = "done"
          /\ UNCHANGED chainVars
     ELSE /\ ChainStart(opts)
          /\ sPc' = "scrape"
          /\ UNCHANGED sResult
  /\ UNCHANGED <<sUrl, storeVars>>

\* scrapePage has returned: "Cache successful results"
scrapeAndCacheStore ==
  /\ sPc = "scrape"
  /\ cPc = "done"
  /\ sResult' = cResult
  /\ IF Cacheable(cResult)
     THEN content' = [content EXCEPT ![hashUrl(sUrl)] =
                        [present |-> TRUE, url |-> sUrl,
                         pageName |-> cResult.pageName,
                         markdown |-> cResult.markdown]]
     ELSE UNCHANGED content
  /\ sPc' = "done"
  /\ ChainReset
  /\ UNCHANGED sUrl
  /\ UNCHANGED <<urlRec, urlList, prompt, response, sitemapMeta, status, now>>

\* the caller has taken the result; the call's locals are gone
scrapeAndCacheReturn ==
  /\ sPc = "done"
  /\ sPc' = "idle"
  /\ sUrl' = "u1"
  /\ sResult' = NoScrape
  /\ UNCHANGED storeVars

\* a scrapeAndCache call has produced its result: it becomes the latest
RememberPrev ==
  sPrev' = IF sResult'.done
           THEN [url |-> sUrl, success |-> sResult'.success,
                 markdown |-> sResult'.markdown]
           ELSE sPrev

\* content of these keys has been removed: earlier outcomes are forgotten
ForgetPrev(ks) ==
  sPrev' = IF sPrev.url # "" /\ hashUrl(sPrev.url) \in ks THEN NoPrev ELSE sPrev

(***************************************************************************)
(* LangCacheService.indexPageContent                                       *)
(* (src/lib/services/langcache-service.ts): the remote semantic index      *)
(***************************************************************************)
VARIABLE langCache

\* loadConfig: no API key, or a key with LANGCACHE_USE_ATTRIBUTES unset
\* (the default) or "true"
LangCacheConfigs == {"missing", "plain", "attributes"}

\* the number of entries the index holds for each page key
NoEntries == [k \in Keys |-> 0]

LangCacheIdle == langCache = [config |-> "missing", entries |-> NoEntries]

\* indexPageContent(pageContent): without a configuration the client cannot
\* be built and the error is swallowed; with attributes the entries tagged
\* with the key are removed first, a failure of that removal being ignored;
\* then one entry is set, unless the markdown is empty or the set fails
indexPageContent(pageContent) ==
  LET urlHash == hashUrl(pageContent.url) IN
  IF langCache.config = "missing"
  THEN UNCHANGED langCache
  ELSE \E deleted \in (IF langCache.config = "attributes"
                       THEN BOOLEAN ELSE {FALSE}),
          stored \in BOOLEAN :
         LET kept == IF deleted
                     THEN [langCache.entries EXCEPT ![urlHash] = 0]
                     ELSE langCache.entries
         IN langCache' =
              [langCache EXCEPT !.entries =
                 IF pageContent.markdown = "" \/ ~stored
                 THEN kept
                 ELSE [kept EXCEPT ![urlHash] = @ + 1]]

\* scrapeAndCache on a hit: "await indexPageContent(cached)"
scrapeAndCacheIndexCached ==
  LET cached == getPageContent(hashUrl(sUrl)) IN
  IF cached.present THEN indexPageContent(cached) ELSE UNCHANGED langCache

\* scrapeAndCache after a fetch: the stored content is indexed
scrapeAndCacheIndexFetched ==
  IF Cacheable(cResult)
  THEN indexPageContent([present |-> TRUE, url |-> sUrl,
                         pageName |-> cResult.pageName,
                         markdown |-> cResult.markdown])
  ELSE UNCHANGED langCache

(***************************************************************************)
(* UrlIndexer.indexSitemap (src/lib/services/sitemap-parser.ts),           *)
(* ProcessingPipeline.run, RedisService.indexUrl / markUrlProcessed        *)
(* (src/unnamed/part_010), PageScraper.scrapeMultiple                      *)
(* (src/unnamed/part_008), AIProcessor.processDomain (src/unnamed/part_011)*)
(***************************************************************************)
VARIABLES site, ix, pl, ixPrev

pipeVars == <<site, ix, pl, ixPrev>>

SitemapUrls == {"sA", "sB"}
\* getCommonSitemapUrls: the conventional locations under the origin
getCommonSitemapUrls(d) ==
  <<d \o "/sitemap.xml", d \o "/sitemap_index.xml", d \o "/sitemap-index.xml",
    d \o "/sitemap1.xml", d \o "/robots.txt">>

\* extractDomain: the host of the sitemap URL
extractDomain(s) ==
  IF s = "sA" \/ (\E n \in 1..5 : s = getCommonSitemapUrls("dA")[n])
  THEN "dA" ELSE "dB"

\* maxUrls options that are enumerated: below and at the length of the
\* longest sitemap
MaxUrlsOpts == {1, 2}
\* batchSize that ProcessingPipeline.run passes to indexSitemap
PipelineBatchSize == 20
\* batchSize that is passed to a direct indexSitemap call
BatchSizeArg == 1
\* limit that processDomain passes to getUrlsByDomain
AiLimit == 1000
\* the caller of processWithAI that processDomain is
AiCaller == "a1"

\* page URLs that parseRecursive resolves each sitemap to
SiteChoices ==
  {[s \in SitemapUrls |-> IF s = "sA" THEN <<"u1", "u2">> ELSE <<"u1">>],
   [s \in SitemapUrls |-> IF s = "sA" THEN <<"u1", "u1">> ELSE <<"u3">>]}

Min(a, b) == IF a < b THEN a ELSE b

\* run: throw new Error("Indexing failed")
IndexingFailed == "Indexing failed"

NoIndexingResult == [done |-> FALSE, success |-> FALSE, domain |-> "",
                     totalUrls |-> 0, indexedUrls |-> 0, skippedUrls |-> 0,
                     errors |-> <<>>]

\* locals of indexSitemap; `size0`, `recs0`, `clean` and `wrote` are
\* history: the size of the domain index and the keys that had a record
\* when the call started, whether no purge has deleted keys since, and the
\* status values the call has written
IxIdle == [pc |-> "idle", sitemapUrl |-> "sA", maxUrls |-> 0,
           skipExisting |-> FALSE, batchSize |-> 0, urlsToIndex |-> <<>>,
           totalUrls |-> 0, i |-> 0, batch |-> <<>>, indexedUrls |-> 0,
           skippedUrls |-> 0, errors |-> <<>>, result |-> NoIndexingResult,
           size0 |-> 0, recs0 |-> {}, clean |-> TRUE, wrote |-> <<>>]

NoPipelineResult ==
  [done |-> FALSE, success |-> FALSE, domain |-> "",
   indexing |-> [totalUrls |-> 0, indexedUrls |-> 0, skippedUrls |-> 0],
   scraping |-> [attempted |-> 0, successful |-> 0, failed |-> 0],
   aiProcessing |-> [attempted |-> 0, successful |-> 0, cached |-> 0,
                     failed |-> 0],
   errors |-> <<>>]

\* run's scrapeDelay option, handed to scrapeMultiple as
\* delayBetweenRequests
ScrapeDelay == 1000

\* the rate-limiting delays scrapeMultiple has slept once one more is over
sleepAfterRequest(slept, delayBetweenRequests) ==
  IF delayBetweenRequests > 0 THEN slept + 1 ELSE slept

\* locals of ProcessingPipeline.run, scrapeMultiple and processDomain;
\* `slept` counts scrapeMultiple's rate-limiting delays; `clean` is
\* history: no purge has deleted keys since the run started
PlIdle == [pc |-> "idle", sitemapUrl |-> "sA", maxUrls |-> 0, domain |-> "",
           clean |-> TRUE,
           indexResult |-> NoIndexingResult,
           urls |-> <<>>, j |-> 0, successCount |-> 0, failedCount |-> 0,
           slept |-> 0,
           urlRecord |-> NoUrlRecord,
           urlRecords |-> <<>>, i |-> 0, successful |-> 0, failed |-> 0,
           cached |-> 0, result |-> NoPipelineResult]

\* the latest indexSitemap call that returned success, forgotten when a
\* purge deletes keys
NoIxPrev == [ok |-> FALSE, sitemapUrl |-> "", maxUrls |-> 0]

PipeIdle ==
  /\ site = [s \in SitemapUrls |-> <<>>]
  /\ ix = IxIdle
  /\ pl = PlIdle
  /\ ixPrev = NoIxPrev

\* indexSitemap(s, {maxUrls, skipExisting, batchSize}) is entered:
\* "Update status to parsing"
indexSitemapCall(s, maxUrls, skipExisting, batchSize) ==
  /\ ix.pc = "idle"
  /\ ix' = [IxIdle EXCEPT !.pc = "parse", !.sitemapUrl = s,
                          !.maxUrls = maxUrls, !.skipExisting = skipExisting,
                          !.batchSize = batchSize,
                          !.size0 = getUrlCount(extractDomain(s)),
                          !.recs0 = {k \in Keys : urlRec[k].present},
                          !.wrote = <<"parsing">>]
  /\ status' = [status EXCEPT ![extractDomain(s)] =
                  Status("parsing", 0, 0, 0, "", "")]
  /\ UNCHANGED <<urlRec, urlList, content, prompt, response, sitemapMeta, now>>

\* parseRecursive returns the sitemap's page list, or throws; on success
\* "Store sitemap metadata" and "Update status to indexing", on failure the
\* outer catch: "Update error status"
indexSitemapParse ==
  /\ ix.pc = "parse"
  /\ LET d == extractDomain(ix.sitemapUrl) IN
     \/ LET urls == site[ix.sitemapUrl]
            totalUrls == Min(Len(urls), ix.maxUrls)
        IN /\ sitemapMeta' = [sitemapMeta EXCEPT ![d] =
                 [present |-> TRUE, sitemapUrl |-> ix.sitemapUrl,
                  totalUrls |-> totalUrls, processedUrls |-> 0,
                  status |-> "processing"]]
           /\ status' = [status EXCEPT ![d] =
                 Status("indexing", totalUrls, 0, 0, "", "")]
           /\ ix' = [ix EXCEPT !.pc = "batch", !.totalUrls = totalUrls,
                               !.urlsToIndex = SubSeq(urls, 1, totalUrls),
                               !.i = 0, !.wrote = Append(@, "indexing")]
     \/ /\ status' = [status EXCEPT ![d] =
              Status("error", 0, ix.indexedUrls, Len(ix.errors) + 1, "", ParseError)]
        /\ ix' = [ix EXCEPT !.pc = "done", !.errors = Append(@, ParseError),
                    !.wrote = Append(@, "error"),
                    !.result = [done |-> TRUE, success |-> FALSE, domain |-> d,
                                totalUrls |-> 0, indexedUrls |-> ix.indexedUrls,
                                skippedUrls |-> ix.skippedUrls,
                                errors |-> Append(ix.errors, ParseError)]]
        /\ UNCHANGED sitemapMeta
  /\ UNCHANGED <<urlRec, urlList, content, prompt, response, now>>

\* "Check if URL already exists": the item for u returns early
ExistingNever(u) == FALSE

Existing(u) == ix.skipExisting /\ getUrlRecord(hashUrl(u)).present

\* head of the batch loop.  Inside the loop the batch's items start
\* together: with skipExisting their getUrlRecord reads are answered before
\* any item writes, and an item whose record exists is skipped.  After the
\* loop: "Update final metadata", "Update final status", return.
indexSitemapBatch ==
  /\ ix.pc = "batch"
  /\ LET d == extractDomain(ix.sitemapUrl)
         n == Len(ix.urlsToIndex) IN
     IF ix.i < n
     THEN LET last == Min(ix.i + ix.batchSize, n)
              batch == [j \in 1..(last - ix.i) |->
                 LET u == ix.urlsToIndex[ix.i + j] IN
                 [loc |-> u,
                  at |-> IF Existing(u) THEN "skipped" ELSE "set"]]
              nskip == Cardinality({j \in DOMAIN batch : batch[j].at = "skipped"})
          IN /\ ix' = [ix EXCEPT !.pc = "items", !.batch = batch,
                                 !.skippedUrls = @ + nskip]
             /\ UNCHANGED storeVars
     ELSE /\ sitemapMeta' = [sitemapMeta EXCEPT ![d] =
                [present |-> TRUE, sitemapUrl |-> ix.sitemapUrl,
                 totalUrls |-> ix.totalUrls, processedUrls |-> ix.indexedUrls,
                 status |-> "completed"]]
          /\ status' = [status EXCEPT ![d] =
                Status("completed", ix.totalUrls,
                       ix.indexedUrls + ix.skippedUrls, Len(ix.errors), "", "")]
          /\ ix' = [ix EXCEPT !.pc = "done", !.wrote = Append(@, "completed"),
                      !.result = [done |-> TRUE, success |-> TRUE, domain |-> d,
                                  totalUrls |-> ix.totalUrls,
                                  indexedUrls |-> ix.indexedUrls,
                                  skippedUrls |-> ix.skippedUrls,
                                  errors |-> ix.errors]]
          /\ UNCHANGED <<urlRec, urlList, content, prompt, response, now>>

\* positions of the current batch whose item is at step `at`
ItemsAt(at) == {j \in DOMAIN ix.batch : ix.batch[j].at = at}
FirstAt(at) == CHOOSE j \in ItemsAt(at) : \A m \in ItemsAt(at) : j <= m

\* indexUrl, first command: SET url:{hash} of the record created for the
\* item (indexed = now, processed = false)
indexUrlSet ==
  /\ ix.pc = "items"
  /\ ItemsAt("set") # {}
  /\ LET j == FirstAt("set")
         u == ix.batch[j].loc
     IN /\ urlRec' = [urlRec EXCEPT ![hashUrl(u)] =
              [present |-> TRUE, url |-> u,
               domain |-> extractDomain(ix.sitemapUrl), indexed |-> now,
               processed |-> FALSE, error |-> ""]]
        /\ ix' = [ix EXCEPT !.batch[j].at = "zadd"]
  /\ UNCHANGED <<urlList, content, prompt, response, sitemapMeta, status, now>>

\* indexUrl, second command: ZADD urls:{domain} Date.now() hash, after
\* which the item counts as indexed
indexUrlZadd ==
  /\ ix.pc = "items"
  /\ ItemsAt("set") = {}
  /\ ItemsAt("zadd") # {}
  /\ LET j == FirstAt("zadd")
         u == ix.batch[j].loc
     IN \E t \in now..Min(now + 1, MaxClock) :
          /\ now' = t
          /\ urlList' = [urlList EXCEPT
                ![extractDomain(ix.sitemapUrl)][hashUrl(u)] = t]
          /\ ix' = [ix EXCEPT !.batch[j].at = "done",
                              !.indexedUrls = @ + 1]
  /\ UNCHANGED <<urlRec, content, prompt, response, sitemapMeta, status>>

\* the next batch without the progress write
indexSitemapProgressUnwritten ==
  /\ ix.pc = "items"
  /\ ItemsAt("set") = {} /\ ItemsAt("zadd") = {}
  /\ ix' = [ix EXCEPT !.pc = "batch", !.batch = <<>>,
                      !.i = @ + ix.batchSize]
  /\ UNCHANGED storeVars

\* a progress write that reports the run as completed
indexSitemapProgressCompleted ==
  /\ ix.pc = "items"
  /\ ItemsAt("set") = {} /\ ItemsAt("zadd") = {}
  /\ status' = [status EXCEPT ![extractDomain(ix.sitemapUrl)] =
        Status("completed", ix.totalUrls, ix.indexedUrls + ix.skippedUrls,
               Len(ix.errors), "", "")]
  /\ ix' = [ix EXCEPT !.pc = "batch", !.batch = <<>>,
                      !.i = @ + ix.batchSize,
                      !.wrote = Append(@, "completed")]
  /\ UNCHANGED <<urlRec, urlList, content, prompt, response, sitemapMeta, now>>

\* every item of the batch has settled: "Update progress", next batch
indexSitemapProgress ==
  /\ ix.pc = "items"
  /\ ItemsAt("set") = {} /\ ItemsAt("zadd") = {}
  /\ status' = [status EXCEPT ![extractDomain(ix.sitemapUrl)] =
        Status("indexing", ix.totalUrls, ix.indexedUrls + ix.skippedUrls,
               Len(ix.errors), "", "")]
  /\ ix' = [ix EXCEPT !.pc = "batch", !.batch = <<>>,
                      !.i = @ + ix.batchSize,
                      !.wrote = Append(@, "indexing")]
  /\ UNCHANGED <<urlRec, urlList, content, prompt, response, sitemapMeta, now>>

\* the caller takes indexSitemap's result
IndexSitemapReturned ==
  /\ ix.pc = "done"
  /\ ix' = IxIdle
  /\ ixPrev' = IF ix.result.success /\ ix.clean
               THEN [ok |-> TRUE, sitemapUrl |-> ix.sitemapUrl,
                     maxUrls |-> ix.maxUrls]
               ELSE NoIxPrev

\* a direct indexSitemap call returns
indexSitemapReturn ==
  /\ pl.pc = "idle"
  /\ IndexSitemapReturned
  /\ UNCHANGED <<pl, storeVars>>

\* ProcessingPipeline.run(s, {maxUrls}) is entered: "Stage 1: Index sitemap"
runCall(s, maxUrls) ==
  /\ pl.pc = "idle"
  /\ pl' = [PlIdle EXCEPT !.pc = "index", !.sitemapUrl = s,
                          !.maxUrls = maxUrls]
  /\ indexSitemapCall(s, maxUrls, FALSE, PipelineBatchSize)

\* indexSitemap has returned to run: failure ends the run; otherwise
\* "Stage 2: Scrape pages" reads getUrlsByDomain(domain, maxUrls)
runIndexedGoesOn ==
  /\ pl.pc = "index"
  /\ IndexSitemapReturned
  /\ IF FALSE
     THEN pl' = [pl EXCEPT !.pc = "done",
                   !.result = [NoPipelineResult EXCEPT !.done = TRUE,
                                 !.errors = Append(ix.result.errors,
                                                   IndexingFailed)]]
     ELSE LET urlRecords == getUrlsByDomain(ix.result.domain, pl.maxUrls, 0) IN
          pl' = [pl EXCEPT !.pc = "scrape", !.domain = ix.result.domain,
                   !.indexResult = ix.result,
                   !.urls = [n \in DOMAIN urlRecords |-> urlRecords[n].url],
                   !.j = 1]
  /\ UNCHANGED storeVars

runIndexed ==
  /\ pl.pc = "index"
  /\ IndexSitemapReturned
  /\ IF ~ix.result.success
     THEN pl' = [pl EXCEPT !.pc = "done",
                   !.result = [NoPipelineResult EXCEPT !.done = TRUE,
                                 !.errors = Append(ix.result.errors,
                                                   IndexingFailed)]]
     ELSE LET urlRecords == getUrlsByDomain(ix.result.domain, pl.maxUrls, 0) IN
          pl' = [pl EXCEPT !.pc = "scrape", !.domain = ix.result.domain,
                   !.indexResult = ix.result,
                   !.urls = [n \in DOMAIN urlRecords |-> urlRecords[n].url],
                   !.j = 1]
  /\ UNCHANGED storeVars

\* scrapeMultiple's loop head: scrapeAndCache for the next URL; after the
\* last one "Stage 3": processDomain reads getUrlsByDomain(domain, 1000)
scrapeMultipleNextOne ==
  /\ pl.pc = "scrape"
  /\ IF pl.j <= Min(1, Len(pl.urls))
     THEN /\ scrapeAndCacheCall(pl.urls[pl.j])
          /\ pl' = [pl EXCEPT !.pc = "scraping"]
     ELSE /\ LET urlRecords == getUrlsByDomain(pl.domain, AiLimit, 0) IN
             pl' = [pl EXCEPT !.pc = "aiStatus",
                      !.urlRecords = [n \in DOMAIN urlRecords |->
                                        urlRecords[n].url]]
          /\ UNCHANGED scrVars
  /\ UNCHANGED storeVars

scrapeMultipleNext ==
  /\ pl.pc = "scrape"
  /\ IF pl.j <= Len(pl.urls)
     THEN /\ scrapeAndCacheCall(pl.urls[pl.j])
          /\ pl' = [pl EXCEPT !.pc = "scraping"]
     ELSE /\ LET urlRecords == getUrlsByDomain(pl.domain, AiLimit, 0) IN
             pl' = [pl EXCEPT !.pc = "aiStatus",
                      !.urlRecords = [n \in DOMAIN urlRecords |->
                                        urlRecords[n].url]]
          /\ UNCHANGED scrVars
  /\ UNCHANGED storeVars

\* scrapeAndCache has returned: count the result; markUrlProcessed reads
\* the record and, when there is one, sets processed and the error on it
markUrlProcessedRead ==
  /\ pl.pc = "scraping"
  /\ sPc = "done"
  /\ LET urlRecord == getUrlRecord(hashUrl(sUrl))
         counted == [pl EXCEPT
            !.successCount = IF sResult.success THEN @ + 1 ELSE @,
            !.failedCount = IF sResult.success THEN @ ELSE @ + 1]
     IN IF ~urlRecord.present
        THEN pl' = [counted EXCEPT !.pc = "scrape", !.j = @ + 1,
                      !.slept = sleepAfterRequest(@, ScrapeDelay)]
        ELSE pl' = [counted EXCEPT !.pc = "mark",
                      !.urlRecord = [urlRecord EXCEPT
                         !.processed = sResult.success,
                         !.error = IF sResult.error # ""
                                   THEN sResult.error ELSE @]]
  /\ scrapeAndCacheReturn

\* markUrlProcessed writes the record back: SET url:{hash}; then the
\* rate-limiting delay and the next URL
markUrlProcessedWrite ==
  /\ pl.pc = "mark"
  /\ urlRec' = [urlRec EXCEPT ![hashUrl(pl.urlRecord.url)] = pl.urlRecord]
  /\ pl' = [pl EXCEPT !.pc = "scrape", !.j = @ + 1,
                      !.slept = sleepAfterRequest(@, ScrapeDelay),
                      !.urlRecord = NoUrlRecord]
  /\ UNCHANGED <<urlList, content, prompt, response, sitemapMeta, status, now>>

\* scrapeMultiple(urls, options) is entered by a caller other than run
scrapeMultipleCall(urls) ==
  /\ pl.pc = "idle"
  /\ pl' = [PlIdle EXCEPT !.pc = "scrape", !.urls = urls, !.j = 1]
  /\ UNCHANGED <<scrVars, storeVars>>

\* scrapeMultiple's loop is over: results and summary go to that caller
scrapeMultipleReturn ==
  /\ pl.pc = "scrape"
  /\ pl.j > Len(pl.urls)
  /\ pl' = PlIdle
  /\ UNCHANGED <<scrVars, storeVars>>

\* processDomain: "Update processing status" before the loop
processDomainStart ==
  /\ pl.pc = "aiStatus"
  /\ status' = [status EXCEPT ![pl.domain] =
        Status("scraping", Len(pl.urlRecords), 0, 0, "", "")]
  /\ pl' = [pl EXCEPT !.pc = "ai", !.i = 0]
  /\ UNCHANGED <<urlRec, urlList, content, prompt, response, sitemapMeta, now>>

\* processDomain's loop head: processUrl -> processWithAI for the next
\* record; after the last one "Update final status" and run's result
processDomainNext ==
  /\ pl.pc = "ai"
  /\ IF pl.i < Len(pl.urlRecords)
     THEN /\ processWithAICall(AiCaller, pl.urlRecords[pl.i + 1])
          /\ pl' = [pl EXCEPT !.pc = "aiWait"]
          /\ UNCHANGED storeVars
     ELSE /\ status' = [status EXCEPT ![pl.domain] =
                Status("completed", Len(pl.urlRecords), pl.successful,
                       pl.failed, "", "")]
          /\ pl' = [pl EXCEPT !.pc = "done",
                !.result = [done |-> TRUE, success |-> TRUE,
                   domain |-> pl.domain,
                   indexing |-> [totalUrls |-> pl.indexResult.totalUrls,
                                 indexedUrls |-> pl.indexResult.indexedUrls,
                                 skippedUrls |-> pl.indexResult.skippedUrls],
                   scraping |-> [attempted |-> Len(pl.urls),
                                 successful |-> pl.successCount,
                                 failed |-> pl.failedCount],
                   aiProcessing |-> [attempted |-> Len(pl.urlRecords),
                                     successful |-> pl.successful,
                                     cached |-> pl.cached,
                                     failed |-> pl.failed],
                   errors |-> <<>>]]
          /\ UNCHANGED aiVars
          /\ UNCHANGED <<urlRec, urlList, content, prompt, response,
                         sitemapMeta, now>>

\* processUrl has returned: count the result, "Update progress"
processDomainProgress ==
  /\ pl.pc = "aiWait"
  /\ aPc[AiCaller] = "done"
  /\ LET result == aResult[AiCaller]
         failed == IF result.success THEN pl.failed ELSE pl.failed + 1
     IN /\ pl' = [pl EXCEPT !.pc = "ai", !.i = @ + 1, !.failed = failed,
                    !.successful = IF result.success THEN @ + 1 ELSE @,
                    !.cached = IF result.success /\ result.fromCache
                               THEN @ + 1 ELSE @]
        /\ status' = [status EXCEPT ![pl.domain] =
              Status("scraping", Len(pl.urlRecords), pl.i + 1, failed,
                     aUrl[AiCaller], "")]
  /\ aPc' = [aPc EXCEPT ![AiCaller] = "idle"]
  /\ aUrl' = [aUrl EXCEPT ![AiCaller] = "u1"]
  /\ aContent' = [aContent EXCEPT ![AiCaller] = NoContent]
  /\ aPrompt' = [aPrompt EXCEPT ![AiCaller] = NoPrompt]
  /\ aResp' = [aResp EXCEPT ![AiCaller] = ""]
  /\ aCalled' = [aCalled EXCEPT ![AiCaller] = 0]
  /\ aResult' = [aResult EXCEPT ![AiCaller] = NoAiResult]
  /\ UNCHANGED <<urlRec, urlList, content, prompt, response, sitemapMeta, now>>

\* run returns its PipelineResult
runReturn ==
  /\ pl.pc = "done"
  /\ pl' = PlIdle

\* a purge has deleted keys: what earlier indexing runs left is forgotten
\* and a running indexSitemap is no longer undisturbed
ForgetRuns ==
  /\ ixPrev' = NoIxPrev
  /\ ix' = IF ix.pc = "idle" THEN ix ELSE [ix EXCEPT !.clean = FALSE]
  /\ pl' = IF pl.pc = "idle" THEN pl ELSE [pl EXCEPT !.clean = FALSE]

(***************************************************************************)
(* UrlIndexer.autoDiscoverAndIndex                                         *)
(***************************************************************************)
VARIABLES dv, dvTried

discVars == <<dv, dvTried>>

\* indexSitemap's defaults, used when the caller passes no options
DefaultMaxUrls == 10000
DefaultBatchSize == 50

\* what robots.txt of the domain can list in its Sitemap: lines (none when
\* the file is missing or has no such line)
RobotsChoices == {<<>>, <<"sA">>, <<"sA", "sB">>, <<"sB", "sA">>}

\* validateSitemapUrl on the conventional locations: the URL ends in .xml
\* or contains "sitemap", which only <origin>/robots.txt fails
validateSitemapUrl(url) ==
  \E d \in Domains, n \in 1..4 : url = getCommonSitemapUrls(d)[n]

\* the sitemaps served while discovery runs
DiscoverSite ==
  [s \in SitemapUrls \cup {getCommonSitemapUrls(d)[n] : d \in Domains, n \in 1..5}
     |-> IF s = "sA" THEN <<"u1", "u2">>
         ELSE IF s = "sB" THEN <<"u3">> ELSE <<"u1">>]

CouldNotFind == "Could not find or parse sitemap"

\* locals of autoDiscoverAndIndex
DvIdle == [pc |-> "idle", domain |-> "dA", robotsSitemaps |-> <<>>,
           commonUrls |-> <<>>, n |-> 0, result |-> NoIndexingResult]

DiscoverIdle ==
  /\ dv = DvIdle
  /\ dvTried = <<>>

\* autoDiscoverAndIndex(domain) is entered: findSitemapInRobots fetches
\* robots.txt
autoDiscoverAndIndexCall(d) ==
  /\ dv.pc = "idle"
  /\ ix.pc = "idle"
  /\ dv' = [DvIdle EXCEPT !.pc = "robots", !.domain = d]

\* findSitemapInRobots has returned the Sitemap: lines in file order: with
\* at least one, indexSitemap(robotsSitemaps[0]); with none, the loop over
\* the common locations
findSitemapInRobots(lists) ==
  /\ dv.pc = "robots"
  /\ \E robotsSitemaps \in lists :
       IF Len(robotsSitemaps) > 0
       THEN /\ dv' = [dv EXCEPT !.pc = "robotsIndex",
                                !.robotsSitemaps = robotsSitemaps]
            /\ indexSitemapCall(robotsSitemaps[1], DefaultMaxUrls, TRUE,
                                DefaultBatchSize)
       ELSE /\ dv' = [dv EXCEPT !.pc = "common",
                       !.commonUrls = getCommonSitemapUrls(dv.domain),
                       !.n = 1]
            /\ UNCHANGED <<ix, storeVars>>

\* "return await this.indexSitemap(robotsSitemaps[0], options)"
autoDiscoverRobotsReturn ==
  /\ dv.pc = "robotsIndex"
  /\ IndexSitemapReturned
  /\ dv' = [dv EXCEPT !.pc = "done", !.result = ix.result]
  /\ UNCHANGED storeVars

\* head of the loop over the common locations: an invalid URL is passed
\* over, a valid one is given to indexSitemap; after the last one the
\* failure result
autoDiscoverCommonNext ==
  /\ dv.pc = "common"
  /\ IF dv.n > Len(dv.commonUrls)
     THEN /\ dv' = [dv EXCEPT !.pc = "done",
                      !.result = [done |-> TRUE, success |-> FALSE,
                                  domain |-> dv.domain, totalUrls |-> 0,
                                  indexedUrls |-> 0, skippedUrls |-> 0,
                                  errors |-> <<CouldNotFind>>]]
          /\ UNCHANGED <<ix, storeVars>>
     ELSE IF ~validateSitemapUrl(dv.commonUrls[dv.n])
     THEN /\ dv' = [dv EXCEPT !.n = @ + 1]
          /\ UNCHANGED <<ix, storeVars>>
     ELSE /\ dv' = [dv EXCEPT !.pc = "commonIndex"]
          /\ indexSitemapCall(dv.commonUrls[dv.n], DefaultMaxUrls, TRUE,
                              DefaultBatchSize)

\* indexSitemap has returned inside the loop: a successful result is
\* returned, otherwise the next location
autoDiscoverCommonReturn ==
  /\ dv.pc = "commonIndex"
  /\ IndexSitemapReturned
  /\ IF ix.result.success
     THEN dv' = [dv EXCEPT !.pc = "done", !.result = ix.result]
     ELSE dv' = [dv EXCEPT !.pc = "common", !.n = @ + 1]
  /\ UNCHANGED storeVars

\* the caller takes the result
autoDiscoverAndIndexReturn ==
  /\ dv.pc = "done"
  /\ dv' = DvIdle

\* history: the candidate whose indexSitemap call has just returned, and
\* whether it succeeded
NoteTried ==
  dvTried' = Append(dvTried, [url |-> ix.sitemapUrl, ok |-> ix.result.success])

(***************************************************************************)
(* hashUrl (src/unnamed/part_007): sha256 of the URL string, hex digest,   *)
(* first 16 characters.  A 32-bit word is a sequence of 32 bits, the most  *)
(* significant first; one action is one round of the compression function. *)
(***************************************************************************)
VARIABLES hv, hvKeys

hashVars == <<hv, hvKeys>>

\* number of hashUrl calls in one behaviour
MaxHashCalls == 2

\* URL strings as character codes: "http://a.io/p", the same with a
\* trailing slash, with the scheme in upper case, and with a query in two
\* orders
UrlPlain == <<104, 116, 116, 112, 58, 47, 47, 97, 46, 105, 111, 47, 112>>
UrlSlash == UrlPlain \o <<47>>
UrlUpper == <<72, 84, 84, 80>> \o SubSeq(UrlPlain, 5, 13)
UrlQueryXY == UrlPlain \o <<63, 120, 61, 49, 38, 121, 61, 50>>
UrlQueryYX == UrlPlain \o <<63, 121, 61, 50, 38, 120, 61, 49>>
HashInputs == {UrlPlain, UrlSlash, UrlUpper, UrlQueryXY, UrlQueryYX}

Word(hi, lo) ==
  [i \in 1..32 |-> IF i <= 16 THEN (hi \div 2^(16 - i)) % 2
                   ELSE (lo \div 2^(32 - i)) % 2]

\* value of the 16 bits of w after position o
Half(w, o) ==
  LET RECURSIVE val(_)
      val(n) == IF n = 0 THEN 0 ELSE 2 * val(n - 1) + w[o + n]
  IN val(16)

Add(a, b) ==
  LET lo == Half(a, 16) + Half(b, 16)
      hi == Half(a, 0) + Half(b, 0) + (lo \div 65536)
  IN Word(hi % 65536, lo % 65536)

Xor(a, b) == [i \in 1..32 |-> (a[i] + b[i]) % 2]
And(a, b) == [i \in 1..32 |-> a[i] * b[i]]
Not(a) == [i \in 1..32 |-> 1 - a[i]]
RotR(a, n) == [i \in 1..32 |-> a[((i - 1 - n + 32) % 32) + 1]]
ShR(a, n) == [i \in 1..32 |-> IF i <= n THEN 0 ELSE a[i - n]]

\* round constants and initial hash value of SHA-256, as <<high, low>>
\* halves
sha256K == <<
    <<17034, 12184>>, <<28983, 17553>>, <<46528, 64463>>, <<59829,
    56229>>, <<14678, 49755>>, <<23025, 4593>>, <<37439, 33444>>, <<43804,
    24277>>, <<55303, 43672>>, <<4739, 23297>>, <<9265, 34238>>, <<21772,
    32195>>, <<29374, 23924>>, <<32990, 45566>>, <<39900, 1703>>, <<49563,
    61812>>, <<58523, 27073>>, <<61374, 18310>>, <<4033, 40390>>, <<9228,
    41420>>, <<11753, 11375>>, <<19060, 33962>>, <<23728,
    43484>>, <<30457, 35034>>, <<38974, 20818>>, <<43057,
    50797>>, <<45059, 10184>>, <<48985, 32711>>, <<50912, 3059>>, <<54695,
    37191>>, <<1738, 25425>>, <<5161, 10599>>, <<10167, 2693>>, <<11803,
    8504>>, <<19756, 28156>>, <<21304, 3347>>, <<25866, 29524>>, <<30314,
    2747>>, <<33218, 51502>>, <<37490, 11397>>, <<41663, 59553>>, <<43034,
    26187>>, <<49739, 35696>>, <<51052, 20899>>, <<53650,
    59417>>, <<54937, 1572>>, <<62478, 13701>>, <<4202, 41072>>, <<6564,
    49430>>, <<7735, 27656>>, <<10056, 30540>>, <<13488, 48309>>, <<14620,
    3251>>, <<20184, 43594>>, <<23452, 51791>>, <<26670, 28659>>, <<29839,
    33518>>, <<30885, 25455>>, <<33992, 30740>>, <<36039, 520>>, <<37054,
    65530>>, <<42064, 27883>>, <<48889, 41975>>, <<50801, 30962>>
>>

sha256H == <<
    <<27145, 58983>>, <<47975, 44677>>, <<15470, 62322>>, <<42319,
    62778>>, <<20750, 21119>>, <<39685, 26764>>, <<8067, 55723>>, <<23520,
    52505>>
>>

\* update(url): the bytes hashed are the characters of the string as given
updateStripSlash(url) ==
  IF Len(url) > 0 /\ url[Len(url)] = 47 THEN SubSeq(url, 1, Len(url) - 1)
  ELSE url

update(url) == url

\* the one padded block of a message of at most 55 bytes, as 16 words
sha256Block(bytes) ==
  LET n == Len(bytes)
      padded == [i \in 1..64 |->
                   IF i <= n THEN bytes[i]
                   ELSE IF i = n + 1 THEN 128
                   ELSE IF i = 63 THEN (8 * n) \div 256
                   ELSE IF i = 64 THEN (8 * n) % 256
                   ELSE 0]
  IN [j \in 1..16 |-> Word(padded[4 * j - 3] * 256 + padded[4 * j - 2],
                           padded[4 * j - 1] * 256 + padded[4 * j])]

\* the next word of the message schedule from the last 16
sha256Schedule(w) ==
  LET s0 == Xor(Xor(RotR(w[2], 7), RotR(w[2], 18)), ShR(w[2], 3))
      s1 == Xor(Xor(RotR(w[15], 17), RotR(w[15], 19)), ShR(w[15], 10))
  IN Add(Add(w[1], s0), Add(w[10], s1))

\* one round of the compression function on the working variables a..h
sha256Compress(r, k, w) ==
  LET S1 == Xor(Xor(RotR(r[5], 6), RotR(r[5], 11)), RotR(r[5], 25))
      ch == Xor(And(r[5], r[6]), And(Not(r[5]), r[7]))
      t1 == Add(Add(Add(r[8], S1), Add(ch, k)), w)
      S0 == Xor(Xor(RotR(r[1], 2), RotR(r[1], 13)), RotR(r[1], 22))
      maj == Xor(Xor(And(r[1], r[2]), And(r[1], r[3])), And(r[2], r[3]))
      t2 == Add(S0, maj)
  IN <<Add(t1, t2), r[1], r[2], r[3], Add(r[4], t1), r[5], r[6], r[7]>>

HexDigits == <<"0", "1", "2", "3", "4", "5", "6", "7", "8", "9",
               "a", "b", "c", "d", "e", "f">>

\* digest("hex").substring(0, 16): the hex digits of the first two words
hexPrefix16(h) ==
  [c \in 1..16 |->
     LET w == h[((c - 1) \div 8) + 1]
         o == 4 * ((c - 1) % 8)
     IN HexDigits[8 * w[o + 1] + 4 * w[o + 2] + 2 * w[o + 3] + w[o + 4] + 1]]

HvIdle == [pc |-> "idle", url |-> <<>>, w |-> <<>>, r |-> <<>>, t |-> 0,
           key |-> <<>>]

HashIdle ==
  /\ hv = HvIdle
  /\ hvKeys = [u \in HashInputs |-> <<>>]

\* hashUrl(url) is entered: createHash("sha256").update(url)
hashUrlCall(url) ==
  /\ hv.pc = "idle"
  /\ hv' = [HvIdle EXCEPT !.pc = "round", !.url = url,
              !.w = sha256Block(update(url)),
              !.r = [j \in 1..8 |-> Word(sha256H[j][1], sha256H[j][2])]]

\* digest(): round t of the 64 rounds
sha256Round ==
  /\ hv.pc = "round"
  /\ hv.t < 64
  /\ hv' = [hv EXCEPT
       !.r = sha256Compress(hv.r,
                Word(sha256K[hv.t + 1][1], sha256K[hv.t + 1][2]), hv.w[1]),
       !.w = Tail(hv.w) \o <<sha256Schedule(hv.w)>>,
       !.t = @ + 1]

\* digest("hex").substring(0, 16): the working variables are added to the
\* initial hash value and the first 16 hex digits are kept
hashUrlDigest ==
  /\ hv.pc = "round"
  /\ hv.t = 64
  /\ hv' = [hv EXCEPT !.pc = "done", !.w = <<>>, !.r = <<>>,
       !.key = hexPrefix16([j \in 1..2 |->
                  Add(Word(sha256H[j][1], sha256H[j][2]), hv.r[j])])]

\* hashUrl returns the key
hashUrlReturn ==
  /\ hv.pc = "done"
  /\ hv' = HvIdle

\* history: the key the last finished call returned for each string
NoteKey ==
  hvKeys' = [hvKeys EXCEPT ![hv.url] = hv.key]

(***************************************************************************)
(* PageScraper.htmlToMarkdown (src/unnamed/part_008), character by          *)
(* character: a text is a sequence of characters, "a" standing for any     *)
(* character that is not whitespace.                                       *)
(***************************************************************************)
VARIABLE nz

\* length of the text turndown returns
MaxTextLen == 5

TextChars == {"a", " ", "\n"}
\* what String.prototype.trim removes
TrimChars == {" ", "\n"}

\* content of the description and keywords meta tags (<<>>: tag absent or
\* empty)
MetaContents == {<<>>, <<"a">>, <<" ">>, <<"\n", "\n", "\n">>}
KeywordContents == {<<>>, <<"a">>}

\* formatMetadata: "# name\n\n**URL:** url\n", then the optional
\* description and keywords paragraphs
formatMetadata(metadata) ==
  <<"a", " ", "a", "\n", "\n", "a", " ", "a", "\n">>
    \o (IF metadata.description # <<>>
          THEN <<"\n", "a", " ">> \o metadata.description \o <<"\n">>
          ELSE <<>>)
    \o (IF metadata.keywords # <<>>
          THEN <<"\n", "a", " ">> \o metadata.keywords \o <<"\n">>
          ELSE <<>>)

RECURSIVE newlineRun(_)
\* length of the run of newlines t starts with
newlineRun(t) ==
  IF t # <<>> /\ Head(t) = "\n" THEN 1 + newlineRun(Tail(t)) ELSE 0

\* the text left as it is
replaceNewlineRunsNone(t) == t

RECURSIVE replaceNewlineRuns(_)
\* replace(/\n{3,}/g, "\n\n"): every maximal run of three or more newlines
\* becomes two newlines
replaceNewlineRuns(t) ==
  IF t = <<>> THEN <<>>
  ELSE IF Head(t) # "\n" THEN <<Head(t)>> \o replaceNewlineRuns(Tail(t))
  ELSE LET n == newlineRun(t)
       IN  (IF n >= 3 THEN <<"\n", "\n">> ELSE SubSeq(t, 1, n))
             \o replaceNewlineRuns(SubSeq(t, n + 1, Len(t)))

RECURSIVE trimStart(_)
trimStart(t) ==
  IF t # <<>> /\ Head(t) \in TrimChars THEN trimStart(Tail(t)) ELSE t

RECURSIVE trimEnd(_)
trimEnd(t) ==
  IF t # <<>> /\ t[Len(t)] \in TrimChars
    THEN trimEnd(SubSeq(t, 1, Len(t) - 1)) ELSE t

\* trim()
trim(t) == trimEnd(trimStart(t))

\* the markdown htmlToMarkdown returns for the text turndown produced
htmlToMarkdownText(turndown, includeMetadata, metadata) ==
  LET markdown == IF includeMetadata
                    THEN formatMetadata(metadata) \o <<"\n", "\n">> \o turndown
                    ELSE turndown
  IN  trim(replaceNewlineRuns(markdown))

NzIdle == [pc |-> "idle", turndown |-> <<>>, includeMetadata |-> FALSE,
           metadata |-> [description |-> <<>>, keywords |-> <<>>],
           markdown |-> <<>>]

NormalizeIdle == nz = NzIdle

\* htmlToMarkdown runs from the turndown call to its return
htmlToMarkdownRun ==
  /\ nz.pc = "converted"
  /\ nz' = [nz EXCEPT !.pc = "returned",
              !.markdown = htmlToMarkdownText(nz.turndown, nz.includeMetadata,
                                              nz.metadata)]

(***************************************************************************)
(* Specifications                                                          *)
(***************************************************************************)
VARIABLE ops

\* number of top-level calls (scrapeAndCache, processWithAI, clearCache,
\* deleteDomainData, expiries) started in one behaviour of SpecCache
MaxOps == 3

\* URLs the concurrent callers of SpecCache work on
CacheUrls == {"u1", "u2"}

vars == <<resVars, chainVars, storeVars, purgeVars, aiVars, clearVars,
          scrVars, sPrev, pipeVars, ops, clHist, discVars, hashVars, nz, aHist, langCache, listing>>

\* the store after indexSitemap has indexed u1 and u2 for domain dA, with
\* u1 either not scraped yet or scraped by an earlier scrapeAndCache
ScrapedContent == [present |-> TRUE, url |-> "u1", pageName |-> "T1",
                   markdown |-> "m1"]

IndexedStore ==
  /\ urlRec = [k \in Keys |->
       IF k \in {"k1", "k2"}
       THEN [present |-> TRUE, url |-> IF k = "k1" THEN "u1" ELSE "u2",
             domain |-> "dA", indexed |-> 1, processed |-> FALSE, error |-> ""]
       ELSE NoUrlRecord]
  /\ urlList = [d \in Domains |-> [k \in Keys |->
       IF d = "dA" /\ k \in {"k1", "k2"} THEN 1 ELSE 0]]
  /\ \E c1 \in {NoContent, ScrapedContent} :
       content = [k \in Keys |-> IF k = "k1" THEN c1 ELSE NoContent]
  /\ prompt = [k \in Keys |-> NoPrompt]
  /\ response = [k \in Keys |-> NoResponse]
  /\ sitemapMeta = [d \in Domains |->
       IF d = "dA"
       THEN [present |-> TRUE, sitemapUrl |-> "sA", totalUrls |-> 2,
             processedUrls |-> 2, status |-> "completed"]
       ELSE NoMeta]
  /\ status = [d \in Domains |->
       IF d = "dA"
       THEN Status("completed", 2, 2, 0, "", "")
       ELSE NoStatus]
  /\ now = 1

Begin == ops < MaxOps /\ ops' = ops + 1

InitResolve ==
  /\ ResolveCalled /\ ChainIdle /\ EmptyStore /\ PurgeIdle /\ AiIdle
  /\ ClearIdle /\ ScrapeIdle /\ PipeIdle /\ ops = 0 /\ sPrev = NoPrev
  /\ DiscoverIdle /\ HashIdle /\ NormalizeIdle /\ AiHistIdle /\ LangCacheIdle /\ ListIdle

resolveOthers == <<chainVars, storeVars, purgeVars, aiVars, clearVars,
                   scrVars, sPrev, pipeVars, ops, clHist, discVars, hashVars, nz, aHist, langCache, listing>>

NextResolve ==
  \/ parseRecursiveEnter /\ UNCHANGED resolveOthers
  \/ parseRecursiveLoop /\ UNCHANGED resolveOthers

SpecResolve == InitResolve /\ [][NextResolve]_vars

\* a resolution on every graph of sitemap indexes, cycles included, the
\* urlsets all listing the one page
InitGraph ==
  /\ InitResolve
  /\ \A s \in Sitemaps : web[s].kind = "urlset" => web[s].urls = <<"p1">>

SpecGraph == InitGraph /\ [][NextResolve]_vars

InitChain ==
  /\ ChainCalled /\ ResolveIdle /\ EmptyStore /\ PurgeIdle /\ AiIdle
  /\ ClearIdle /\ ScrapeIdle /\ PipeIdle /\ ops = 0 /\ sPrev = NoPrev
  /\ DiscoverIdle /\ HashIdle /\ NormalizeIdle /\ AiHistIdle /\ LangCacheIdle /\ ListIdle

chainOthers == <<resVars, storeVars, purgeVars, aiVars, clearVars,
                 scrVars, sPrev, pipeVars, ops, clHist, discVars, hashVars, nz, aHist, langCache, listing>>

NextChain ==
  \/ scrapeWithJina(UpstreamDocs) /\ UNCHANGED chainOthers
  \/ scrapeWithBrowser(UpstreamDocs) /\ UNCHANGED chainOthers
  \/ scrapeWithFetch(UpstreamDocs, FetchErrors) /\ UNCHANGED chainOthers
  \/ scrapeBackoff /\ UNCHANGED chainOthers

SpecChain == InitChain /\ [][NextChain]_vars

\* scrapePage with upstreams that answer, fail or stay silent; every await
\* that can complete does complete
NextTimeout ==
  \/ NextChain
  \/ scrapeWithJinaNoReply /\ UNCHANGED chainOthers
  \/ scrapeWithBrowserNoReply /\ UNCHANGED chainOthers
  \/ scrapeWithBrowserTimeout /\ UNCHANGED chainOthers
  \/ scrapeWithFetchNoReply /\ UNCHANGED chainOthers
  \/ scrapeWithFetchAbort /\ UNCHANGED chainOthers

SpecTimeout == InitChain /\ [][NextTimeout]_vars /\ WF_vars(NextTimeout)

InitCache ==
  /\ ResolveIdle /\ ChainIdle /\ IndexedStore /\ PurgeIdle /\ AiIdle
  /\ ClearIdle /\ ScrapeIdle /\ PipeIdle /\ ops = 0 /\ sPrev = NoPrev
  /\ DiscoverIdle /\ HashIdle /\ NormalizeIdle /\ AiHistIdle /\ LangCacheIdle /\ ListIdle

NextCache ==
  \/ \E p \in Procs, u \in CacheUrls :
       /\ processWithAICall(p, u) /\ Begin /\ NoteCall(p, u)
       /\ UNCHANGED <<resVars, discVars, hashVars, nz, aHist, langCache, listing, pipeVars, chainVars, storeVars, purgeVars, clearVars, scrVars, sPrev>>
  \/ \E p \in Procs :
       /\ processWithAICheck(p)
       /\ UNCHANGED <<resVars, discVars, hashVars, nz, aHist, langCache, listing, clHist, pipeVars, chainVars, purgeVars, clearVars, scrVars, sPrev, ops>>
  \/ \E p \in Procs :
       /\ processPageContent(p)
       /\ UNCHANGED <<resVars, discVars, hashVars, nz, aHist, langCache, listing, clHist, pipeVars, chainVars, purgeVars, clearVars, scrVars, sPrev, ops>>
  \/ \E p \in Procs :
       /\ processPagePrompt(p)
       /\ UNCHANGED <<resVars, discVars, hashVars, nz, aHist, langCache, listing, clHist, pipeVars, chainVars, purgeVars, clearVars, scrVars, sPrev, ops>>
  \/ \E p \in Procs :
       /\ processPageStore(p)
       /\ UNCHANGED <<resVars, discVars, hashVars, nz, aHist, langCache, listing, clHist, pipeVars, chainVars, purgeVars, clearVars, scrVars, sPrev, ops>>
  \/ \E p \in Procs :
       /\ processWithAIInvoke(p, Responses)
       /\ UNCHANGED <<resVars, discVars, hashVars, nz, aHist, langCache, listing, clHist, pipeVars, chainVars, purgeVars, clearVars, scrVars, sPrev, ops>>
  \/ \E p \in Procs :
       /\ processWithAIStore(p) /\ NoteStored(p)
       /\ UNCHANGED <<resVars, discVars, hashVars, nz, aHist, langCache, listing, pipeVars, chainVars, purgeVars, clearVars, scrVars, sPrev, ops>>
  \/ \E p \in Procs :
       /\ processWithAIReturn(p) /\ NoteReturn(p)
       /\ UNCHANGED <<resVars, discVars, hashVars, nz, aHist, langCache, listing, pipeVars, chainVars, purgeVars, clearVars, scrVars, sPrev, ops>>
  \/ \E u \in CacheUrls :
       /\ clearCachePrompt(u) /\ Begin
       /\ UNCHANGED <<resVars, discVars, hashVars, nz, aHist, langCache, listing, clHist, pipeVars, chainVars, purgeVars, aiVars, scrVars, sPrev>>
  \/ /\ clearCacheResponse /\ NoteCleared
     /\ UNCHANGED <<resVars, discVars, hashVars, nz, aHist, langCache, listing, pipeVars, chainVars, purgeVars, aiVars, scrVars, sPrev, ops>>
  \/ \E u \in CacheUrls :
       /\ scrapeAndCacheCall(u) /\ Begin
       /\ UNCHANGED <<resVars, discVars, hashVars, nz, aHist, langCache, listing, clHist, pipeVars, chainVars, storeVars, purgeVars,
                      aiVars, clearVars, sPrev>>
  \/ /\ scrapeAndCacheCheck(CallerScrapeOptions) /\ RememberPrev
     /\ UNCHANGED <<resVars, discVars, hashVars, nz, aHist, langCache, listing, clHist, pipeVars, purgeVars, aiVars, clearVars, ops>>
  \/ /\ sPc = "scrape" /\ scrapeWithJina(UpstreamDocs)
     /\ UNCHANGED <<resVars, discVars, hashVars, nz, aHist, langCache, listing, clHist, pipeVars, storeVars, purgeVars, aiVars, clearVars, scrVars, sPrev, ops>>
  \/ /\ sPc = "scrape" /\ scrapeWithFetch(UpstreamDocs, FetchErrors)
     /\ UNCHANGED <<resVars, discVars, hashVars, nz, aHist, langCache, listing, clHist, pipeVars, storeVars, purgeVars, aiVars, clearVars, scrVars, sPrev, ops>>
  \/ /\ sPc = "scrape" /\ scrapeBackoff
     /\ UNCHANGED <<resVars, discVars, hashVars, nz, aHist, langCache, listing, clHist, pipeVars, storeVars, purgeVars, aiVars, clearVars, scrVars, sPrev, ops>>
  \/ /\ scrapeAndCacheStore /\ RememberPrev
     /\ UNCHANGED <<resVars, discVars, hashVars, nz, aHist, langCache, listing, clHist, pipeVars, purgeVars, aiVars, clearVars, ops>>
  \/ /\ scrapeAndCacheReturn
     /\ UNCHANGED <<resVars, discVars, hashVars, nz, aHist, langCache, listing, clHist, pipeVars, chainVars, purgeVars, aiVars,
                    clearVars, sPrev, ops>>
  \/ \E k \in Keys :
       /\ contentExpires(k) /\ ForgetPrev({k}) /\ Begin
       /\ UNCHANGED <<resVars, discVars, hashVars, nz, aHist, langCache, listing, clHist, pipeVars, chainVars, purgeVars, aiVars, clearVars,
                      scrVars>>
  \/ \E d \in {"dA"} :
       /\ deleteDomainDataRead(d) /\ Begin
       /\ UNCHANGED <<resVars, discVars, hashVars, nz, aHist, langCache, listing, clHist, pipeVars, chainVars, aiVars, clearVars, scrVars, sPrev>>
  \/ /\ deleteDomainDataDelete /\ ForgetPrev(pgHashes)
     /\ UNCHANGED <<resVars, discVars, hashVars, nz, aHist, langCache, listing, clHist, pipeVars, chainVars, aiVars, clearVars, scrVars, ops>>

SpecCache == InitCache /\ [][NextCache]_vars

\* scrapeAndCache calls and content expiries on a store that holds content
\* for u1, with the semantic index under every configuration
InitSemantic ==
  /\ ResolveIdle /\ ChainIdle /\ IndexedStore /\ PurgeIdle /\ AiIdle
  /\ ClearIdle /\ ScrapeIdle /\ PipeIdle /\ ops = 0 /\ sPrev = NoPrev
  /\ DiscoverIdle /\ HashIdle /\ NormalizeIdle /\ AiHistIdle /\ ListIdle
  /\ \E c \in LangCacheConfigs :
       langCache = [config |-> c, entries |-> NoEntries]

semOthers == <<resVars, discVars, hashVars, nz, aHist, listing, clHist,
               pipeVars,
               purgeVars, aiVars, clearVars, sPrev>>

NextSemantic ==
  \/ \E u \in CacheUrls :
       /\ scrapeAndCacheCall(u) /\ Begin
       /\ UNCHANGED <<semOthers, chainVars, storeVars, langCache>>
  \/ /\ scrapeAndCacheCheck(CallerScrapeOptions) /\ scrapeAndCacheIndexCached
     /\ UNCHANGED <<semOthers, ops>>
  \/ /\ sPc = "scrape" /\ scrapeWithJina(UpstreamDocs)
     /\ UNCHANGED <<semOthers, storeVars, scrVars, langCache, ops>>
  \/ /\ sPc = "scrape" /\ scrapeWithFetch(UpstreamDocs, FetchErrors)
     /\ UNCHANGED <<semOthers, storeVars, scrVars, langCache, ops>>
  \/ /\ sPc = "scrape" /\ scrapeBackoff
     /\ UNCHANGED <<semOthers, storeVars, scrVars, langCache, ops>>
  \/ /\ scrapeAndCacheStore /\ scrapeAndCacheIndexFetched
     /\ UNCHANGED <<semOthers, ops>>
  \/ /\ scrapeAndCacheReturn
     /\ UNCHANGED <<semOthers, chainVars, langCache, ops>>
  \/ \E k \in Keys :
       /\ contentExpires(k) /\ Begin
       /\ UNCHANGED <<semOthers, chainVars, scrVars, langCache>>

SpecSemantic == InitSemantic /\ [][NextSemantic]_vars

\* number of calls and content expiries in one behaviour of SpecRetry and
\* of SpecClear
MaxAiCalls == 4

\* processWithAI, processPage and clearCache callers on content that stays
\* as it was stored
InitClear == InitCache

clearOthers == <<resVars, discVars, hashVars, nz, aHist, langCache, listing, clHist,
                 pipeVars, chainVars, purgeVars, scrVars, sPrev>>

NextClear ==
  \/ \E p \in Procs, u \in CacheUrls :
       /\ ops < MaxAiCalls /\ ops' = ops + 1
       /\ processWithAICall(p, u)
       /\ UNCHANGED <<clearOthers, clPc, clUrl, storeVars>>
  \/ \E p \in Procs :
       processWithAICheck(p) /\ UNCHANGED <<clearOthers, clPc, clUrl, ops>>
  \/ \E p \in Procs :
       processPageContent(p) /\ UNCHANGED <<clearOthers, clPc, clUrl, ops>>
  \/ \E p \in Procs :
       processPagePrompt(p) /\ UNCHANGED <<clearOthers, clPc, clUrl, ops>>
  \/ \E p \in Procs :
       processPageStore(p) /\ UNCHANGED <<clearOthers, clPc, clUrl, ops>>
  \/ \E p \in Procs :
       /\ processWithAIInvoke(p, Responses)
       /\ UNCHANGED <<clearOthers, clPc, clUrl, ops>>
  \/ \E p \in Procs :
       processWithAIStore(p) /\ UNCHANGED <<clearOthers, clPc, clUrl, ops>>
  \/ \E p \in Procs :
       processWithAIReturn(p) /\ UNCHANGED <<clearOthers, clPc, clUrl, ops>>
  \/ \E p \in Procs, u \in CacheUrls :
       /\ processPage(p, u)
       /\ IF aPc[p] = "idle"
          THEN ops < MaxAiCalls /\ ops' = ops + 1
          ELSE UNCHANGED ops
       /\ UNCHANGED <<clearOthers, clPc, clUrl>>
  \/ \E u \in CacheUrls :
       /\ ops < MaxAiCalls /\ ops' = ops + 1
       /\ clearCachePrompt(u)
       /\ UNCHANGED <<clearOthers, aiVars>>
  \/ /\ clearCacheResponse
     /\ UNCHANGED <<clearOthers, aiVars, ops>>

SpecClear == InitClear /\ [][NextClear]_vars

\* callers of processWithAI on a store whose content can expire, with the
\* failed completions remembered
InitRetry == InitCache

retryOthers == <<resVars, discVars, hashVars, nz, langCache, listing, clHist, pipeVars, chainVars,
                 purgeVars, clearVars, scrVars, sPrev>>

NextRetry ==
  \/ \E p \in Procs, u \in CacheUrls :
       /\ ops < MaxAiCalls /\ ops' = ops + 1
       /\ processWithAICall(p, u) /\ NoteEntered(p, u)
       /\ UNCHANGED <<retryOthers, storeVars>>
  \/ \E p \in Procs :
       processWithAICheck(p) /\ UNCHANGED <<retryOthers, aHist, ops>>
  \/ \E p \in Procs :
       processPageContent(p) /\ UNCHANGED <<retryOthers, aHist, ops>>
  \/ \E p \in Procs :
       processPagePrompt(p) /\ UNCHANGED <<retryOthers, aHist, ops>>
  \/ \E p \in Procs :
       processPageStore(p) /\ UNCHANGED <<retryOthers, aHist, ops>>
  \/ \E p \in Procs :
       /\ processWithAIInvoke(p, Responses) /\ NoteInvoked(p)
       /\ UNCHANGED <<retryOthers, ops>>
  \/ \E p \in Procs :
       processWithAIStore(p) /\ UNCHANGED <<retryOthers, aHist, ops>>
  \/ \E p \in Procs :
       /\ processWithAIReturn(p) /\ NoteTaken(p)
       /\ UNCHANGED <<retryOthers, ops>>
  \/ \E k \in Keys :
       /\ ops < MaxAiCalls /\ ops' = ops + 1
       /\ contentExpires(k)
       /\ UNCHANGED <<resVars, discVars, hashVars, nz, clHist, pipeVars,
                      chainVars, purgeVars, clearVars, scrVars, sPrev,
                      aiVars, langCache, listing, aHist>>

SpecRetry == InitRetry /\ [][NextRetry]_vars

\* pipeline runs and direct indexing runs, one at a time, with purges
\* running beside them
InitPipeline ==
  /\ ResolveIdle /\ ChainIdle /\ EmptyStore /\ PurgeIdle /\ AiIdle
  /\ ClearIdle /\ ScrapeIdle /\ ops = 0 /\ sPrev = NoPrev
  /\ DiscoverIdle /\ HashIdle /\ NormalizeIdle /\ AiHistIdle /\ LangCacheIdle /\ ListIdle
  /\ site \in SiteChoices
  /\ ix = IxIdle /\ pl = PlIdle /\ ixPrev = NoIxPrev

plOthers == <<resVars, clearVars, clHist, sPrev, discVars, hashVars, nz, aHist, langCache, listing>>

\* what the upstreams serve while the pipeline runs: an empty page or one
\* fixed page, one kind of fetch error, one completion text
PipelineDocs == {EmptyDoc, [pageName |-> "T1", markdown |-> "m1"]}
PipelineErrors == {"HTTP 500"}
PipelineTexts == {"r1"}

\* total cost of the calls started in one behaviour of SpecPipeline: a
\* pipeline run costs 2, a direct indexSitemap call or a purge costs 1
MaxWork == 3
Spend(n) == ops + n <= MaxWork /\ ops' = ops + n

NextPipeline ==
  \/ \E s \in SitemapUrls, m \in MaxUrlsOpts, sk \in BOOLEAN :
       /\ pl.pc = "idle"
       /\ indexSitemapCall(s, m, sk, BatchSizeArg) /\ Spend(1)
       /\ UNCHANGED <<plOthers, chainVars, purgeVars, aiVars, scrVars,
                      site, pl, ixPrev>>
  \/ \E s \in SitemapUrls, m \in MaxUrlsOpts :
       /\ runCall(s, m) /\ Spend(2)
       /\ UNCHANGED <<plOthers, chainVars, purgeVars, aiVars, scrVars,
                      site, ixPrev>>
  \/ /\ indexSitemapParse
     /\ UNCHANGED <<plOthers, chainVars, purgeVars, aiVars, scrVars,
                    site, pl, ixPrev, ops>>
  \/ /\ indexSitemapBatch
     /\ UNCHANGED <<plOthers, chainVars, purgeVars, aiVars, scrVars,
                    site, pl, ixPrev, ops>>
  \/ /\ indexUrlSet
     /\ UNCHANGED <<plOthers, chainVars, purgeVars, aiVars, scrVars,
                    site, pl, ixPrev, ops>>
  \/ /\ indexUrlZadd
     /\ UNCHANGED <<plOthers, chainVars, purgeVars, aiVars, scrVars,
                    site, pl, ixPrev, ops>>
  \/ /\ indexSitemapProgress
     /\ UNCHANGED <<plOthers, chainVars, purgeVars, aiVars, scrVars,
                    site, pl, ixPrev, ops>>
  \/ /\ indexSitemapReturn
     /\ UNCHANGED <<plOthers, chainVars, purgeVars, aiVars, scrVars, site, ops>>
  \/ /\ runIndexed
     /\ UNCHANGED <<plOthers, chainVars, purgeVars, aiVars, scrVars, site, ops>>
  \/ /\ scrapeMultipleNext
     /\ UNCHANGED <<plOthers, chainVars, purgeVars, aiVars, site, ix, ixPrev, ops>>
  \/ /\ pl.pc = "scraping" /\ scrapeAndCacheCheck(CallerScrapeOptions)
     /\ UNCHANGED <<plOthers, purgeVars, aiVars, pipeVars, ops>>
  \/ /\ pl.pc = "scraping" /\ sPc = "scrape" /\ scrapeWithJina(PipelineDocs)
     /\ UNCHANGED <<plOthers, storeVars, purgeVars, aiVars, scrVars,
                    pipeVars, ops>>
  \/ /\ pl.pc = "scraping" /\ sPc = "scrape"
     /\ scrapeWithFetch(PipelineDocs, PipelineErrors)
     /\ UNCHANGED <<plOthers, storeVars, purgeVars, aiVars, scrVars,
                    pipeVars, ops>>
  \/ /\ pl.pc = "scraping" /\ sPc = "scrape" /\ scrapeBackoff
     /\ UNCHANGED <<plOthers, storeVars, purgeVars, aiVars, scrVars,
                    pipeVars, ops>>
  \/ /\ pl.pc = "scraping" /\ scrapeAndCacheStore
     /\ UNCHANGED <<plOthers, purgeVars, aiVars, pipeVars, ops>>
  \/ /\ markUrlProcessedRead
     /\ UNCHANGED <<plOthers, chainVars, purgeVars, aiVars, site, ix, ixPrev, ops>>
  \/ /\ markUrlProcessedWrite
     /\ UNCHANGED <<plOthers, chainVars, purgeVars, aiVars, scrVars,
                    site, ix, ixPrev, ops>>
  \/ /\ processDomainStart
     /\ UNCHANGED <<plOthers, chainVars, purgeVars, aiVars, scrVars,
                    site, ix, ixPrev, ops>>
  \/ /\ processDomainNext
     /\ UNCHANGED <<plOthers, chainVars, purgeVars, scrVars,
                    site, ix, ixPrev, ops>>
  \/ /\ pl.pc = "aiWait" /\ processWithAICheck(AiCaller)
     /\ UNCHANGED <<plOthers, chainVars, purgeVars, scrVars, pipeVars, ops>>
  \/ /\ pl.pc = "aiWait" /\ processPageContent(AiCaller)
     /\ UNCHANGED <<plOthers, chainVars, purgeVars, scrVars, pipeVars, ops>>
  \/ /\ pl.pc = "aiWait" /\ processPagePrompt(AiCaller)
     /\ UNCHANGED <<plOthers, chainVars, purgeVars, scrVars, pipeVars, ops>>
  \/ /\ pl.pc = "aiWait" /\ processPageStore(AiCaller)
     /\ UNCHANGED <<plOthers, chainVars, purgeVars, scrVars, pipeVars, ops>>
  \/ /\ pl.pc = "aiWait" /\ processWithAIInvoke(AiCaller, PipelineTexts)
     /\ UNCHANGED <<plOthers, chainVars, purgeVars, scrVars, pipeVars, ops>>
  \/ /\ pl.pc = "aiWait" /\ processWithAIStore(AiCaller)
     /\ UNCHANGED <<plOthers, chainVars, purgeVars, scrVars, pipeVars, ops>>
  \/ /\ processDomainProgress
     /\ UNCHANGED <<plOthers, chainVars, purgeVars, scrVars,
                    site, ix, ixPrev, ops>>
  \/ /\ runReturn
     /\ UNCHANGED <<plOthers, chainVars, storeVars, purgeVars, aiVars,
                    scrVars, site, ix, ixPrev, ops>>
  \/ \E d \in Domains :
       /\ deleteDomainDataRead(d) /\ Spend(1)
       /\ UNCHANGED <<plOthers, chainVars, aiVars, scrVars, pipeVars>>
  \/ /\ deleteDomainDataDelete /\ ForgetRuns
     /\ UNCHANGED <<plOthers, chainVars, aiVars, scrVars, site, ops>>

SpecPipeline == InitPipeline /\ [][NextPipeline]_vars

\* autoDiscoverAndIndex calls, one at a time, on an empty store
InitDiscover ==
  /\ ResolveIdle /\ ChainIdle /\ EmptyStore /\ PurgeIdle /\ AiIdle
  /\ ClearIdle /\ ScrapeIdle /\ ops = 0 /\ sPrev = NoPrev
  /\ dv = DvIdle /\ dvTried = <<>> /\ HashIdle /\ NormalizeIdle /\ AiHistIdle /\ LangCacheIdle /\ ListIdle
  /\ site = DiscoverSite
  /\ ix = IxIdle /\ pl = PlIdle /\ ixPrev = NoIxPrev

dvOthers == <<resVars, chainVars, purgeVars, aiVars, clearVars, clHist,
              scrVars, sPrev, site, pl, hashVars, nz, aHist, langCache, listing>>

NextDiscover ==
  \/ \E d \in Domains :
       /\ autoDiscoverAndIndexCall(d) /\ Spend(1)
       /\ dvTried' = <<>>
       /\ UNCHANGED <<dvOthers, storeVars, ix, ixPrev>>
  \/ /\ findSitemapInRobots(RobotsChoices)
     /\ UNCHANGED <<dvOthers, dvTried, ixPrev, ops>>
  \/ /\ dv.pc # "idle" /\ indexSitemapParse
     /\ UNCHANGED <<dvOthers, discVars, ixPrev, ops>>
  \/ /\ dv.pc # "idle" /\ indexSitemapBatch
     /\ UNCHANGED <<dvOthers, discVars, ixPrev, ops>>
  \/ /\ dv.pc # "idle" /\ indexUrlSet
     /\ UNCHANGED <<dvOthers, discVars, ixPrev, ops>>
  \/ /\ dv.pc # "idle" /\ indexUrlZadd
     /\ UNCHANGED <<dvOthers, discVars, ixPrev, ops>>
  \/ /\ dv.pc # "idle" /\ indexSitemapProgress
     /\ UNCHANGED <<dvOthers, discVars, ixPrev, ops>>
  \/ /\ autoDiscoverRobotsReturn /\ NoteTried
     /\ UNCHANGED <<dvOthers, ops>>
  \/ /\ autoDiscoverCommonNext
     /\ UNCHANGED <<dvOthers, dvTried, ixPrev, ops>>
  \/ /\ autoDiscoverCommonReturn /\ NoteTried
     /\ UNCHANGED <<dvOthers, ops>>
  \/ /\ autoDiscoverAndIndexReturn
     /\ UNCHANGED <<dvOthers, dvTried, storeVars, ix, ixPrev, ops>>

SpecDiscover == InitDiscover /\ [][NextDiscover]_vars

\* largest limit and offset passed to getUrlsByDomain in SpecList
MaxLimit == 3

\* getUrlsByDomain calls on every index of dA over scores 0..2 and every
\* set of keys that have a record
InitList ==
  /\ ResolveIdle /\ ChainIdle /\ PurgeIdle /\ AiIdle
  /\ ClearIdle /\ ScrapeIdle /\ PipeIdle /\ ops = 0 /\ sPrev = NoPrev
  /\ DiscoverIdle /\ HashIdle /\ NormalizeIdle /\ AiHistIdle /\ LangCacheIdle
  /\ ListIdle
  /\ \E recs \in SUBSET Keys :
       urlRec = [k \in Keys |->
         IF k \in recs
         THEN [present |-> TRUE, url |-> CHOOSE u \in Urls : hashUrl(u) = k,
               domain |-> "dA", indexed |-> 1, processed |-> FALSE,
               error |-> ""]
         ELSE NoUrlRecord]
  /\ \E scores \in [Keys -> 0..2] :
       urlList = [d \in Domains |->
                    IF d = "dA" THEN scores ELSE [k \in Keys |-> 0]]
  /\ content = [k \in Keys |-> NoContent]
  /\ prompt = [k \in Keys |-> NoPrompt]
  /\ response = [k \in Keys |-> NoResponse]
  /\ sitemapMeta = [d \in Domains |-> NoMeta]
  /\ status = [d \in Domains |-> NoStatus]
  /\ now = 2

listOthers == <<resVars, chainVars, storeVars, purgeVars, aiVars, clearVars,
                clHist, scrVars, sPrev, pipeVars, discVars, hashVars, nz,
                aHist, langCache, ops>>

NextList ==
  \/ \E d \in Domains, limit \in 0..MaxLimit, offset \in 0..MaxLimit :
       getUrlsByDomainCall(d, limit, offset) /\ UNCHANGED listOthers
  \/ getUrlsByDomainReturn /\ UNCHANGED listOthers

SpecList == InitList /\ [][NextList]_vars

\* URL lists handed to scrapeMultiple; u3 has no record
ScrapeLists == {<<"u1">>, <<"u2">>, <<"u3">>, <<"u1", "u2">>}

\* scrapeMultiple calls, one after another, on an indexed store
InitScrape == InitCache

NextScrape ==
  \/ \E urls \in ScrapeLists :
       /\ scrapeMultipleCall(urls) /\ Spend(1)
       /\ UNCHANGED <<plOthers, chainVars, purgeVars, aiVars, site, ix, ixPrev>>
  \/ /\ pl.j <= Len(pl.urls) /\ scrapeMultipleNext
     /\ UNCHANGED <<plOthers, chainVars, purgeVars, aiVars, site, ix, ixPrev, ops>>
  \/ /\ pl.pc = "scraping" /\ scrapeAndCacheCheck(CallerScrapeOptions)
     /\ UNCHANGED <<plOthers, purgeVars, aiVars, pipeVars, ops>>
  \/ /\ pl.pc = "scraping" /\ sPc = "scrape" /\ scrapeWithJina(PipelineDocs)
     /\ UNCHANGED <<plOthers, storeVars, purgeVars, aiVars, scrVars,
                    pipeVars, ops>>
  \/ /\ pl.pc = "scraping" /\ sPc = "scrape"
     /\ scrapeWithFetch(PipelineDocs, PipelineErrors)
     /\ UNCHANGED <<plOthers, storeVars, purgeVars, aiVars, scrVars,
                    pipeVars, ops>>
  \/ /\ pl.pc = "scraping" /\ sPc = "scrape" /\ scrapeBackoff
     /\ UNCHANGED <<plOthers, storeVars, purgeVars, aiVars, scrVars,
                    pipeVars, ops>>
  \/ /\ pl.pc = "scraping" /\ scrapeAndCacheStore
     /\ UNCHANGED <<plOthers, purgeVars, aiVars, pipeVars, ops>>
  \/ /\ markUrlProcessedRead
     /\ UNCHANGED <<plOthers, chainVars, purgeVars, aiVars, site, ix, ixPrev, ops>>
  \/ /\ markUrlProcessedWrite
     /\ UNCHANGED <<plOthers, chainVars, purgeVars, aiVars, scrVars,
                    site, ix, ixPrev, ops>>
  \/ /\ scrapeMultipleReturn
     /\ UNCHANGED <<plOthers, chainVars, purgeVars, aiVars, site, ix, ixPrev, ops>>

SpecScrape == InitScrape /\ [][NextScrape]_vars

\* indexSitemap calls with the default batch size, one after another, no
\* purge and no pipeline run beside them
InitBatch == InitPipeline

NextBatch ==
  \/ \E s \in SitemapUrls, m \in MaxUrlsOpts, sk \in BOOLEAN :
       /\ indexSitemapCall(s, m, sk, DefaultBatchSize) /\ Spend(1)
       /\ UNCHANGED <<plOthers, chainVars, purgeVars, aiVars, scrVars,
                      site, pl, ixPrev>>
  \/ /\ indexSitemapParse
     /\ UNCHANGED <<plOthers, chainVars, purgeVars, aiVars, scrVars,
                    site, pl, ixPrev, ops>>
  \/ /\ indexSitemapBatch
     /\ UNCHANGED <<plOthers, chainVars, purgeVars, aiVars, scrVars,
                    site, pl, ixPrev, ops>>
  \/ /\ indexUrlSet
     /\ UNCHANGED <<plOthers, chainVars, purgeVars, aiVars, scrVars,
                    site, pl, ixPrev, ops>>
  \/ /\ indexUrlZadd
     /\ UNCHANGED <<plOthers, chainVars, purgeVars, aiVars, scrVars,
                    site, pl, ixPrev, ops>>
  \/ /\ indexSitemapProgress
     /\ UNCHANGED <<plOthers, chainVars, purgeVars, aiVars, scrVars,
                    site, pl, ixPrev, ops>>
  \/ /\ indexSitemapReturn
     /\ UNCHANGED <<plOthers, chainVars, purgeVars, aiVars, scrVars, site, ops>>

SpecBatch == InitBatch /\ [][NextBatch]_vars

\* hashUrl calls, one after another, on an empty or an indexed store
InitHash ==
  /\ ResolveIdle /\ ChainIdle /\ PurgeIdle /\ AiIdle
  /\ ClearIdle /\ ScrapeIdle /\ PipeIdle /\ ops = 0 /\ sPrev = NoPrev
  /\ DiscoverIdle /\ HashIdle /\ NormalizeIdle /\ AiHistIdle /\ LangCacheIdle /\ ListIdle
  /\ (EmptyStore \/ IndexedStore)

hashOthers == <<resVars, chainVars, storeVars, purgeVars, aiVars, clearVars,
                clHist, scrVars, sPrev, pipeVars, discVars>>
hashOthersNz == <<hashOthers, nz, aHist, langCache, listing>>

NextHash ==
  \/ \E url \in HashInputs :
       /\ ops < MaxHashCalls /\ ops' = ops + 1
       /\ hashUrlCall(url)
       /\ UNCHANGED <<hashOthersNz, hvKeys>>
  \/ sha256Round /\ UNCHANGED <<hashOthersNz, hvKeys, ops>>
  \/ hashUrlDigest /\ UNCHANGED <<hashOthersNz, hvKeys, ops>>
  \/ hashUrlReturn /\ NoteKey /\ UNCHANGED <<hashOthersNz, ops>>

SpecHash == InitHash /\ [][NextHash]_vars

\* one htmlToMarkdown call on every text turndown can return
InitNormalize ==
  /\ ResolveIdle /\ ChainIdle /\ PurgeIdle /\ AiIdle
  /\ ClearIdle /\ ScrapeIdle /\ PipeIdle /\ ops = 0 /\ sPrev = NoPrev
  /\ DiscoverIdle /\ HashIdle /\ AiHistIdle /\ LangCacheIdle /\ ListIdle
  /\ EmptyStore
  /\ \E t \in SeqsUpTo(TextChars, MaxTextLen), m \in BOOLEAN,
        d \in MetaContents, k \in KeywordContents :
       nz = [NzIdle EXCEPT !.pc = "converted", !.turndown = t,
               !.includeMetadata = m,
               !.metadata = [description |-> d, keywords |-> k]]

NextNormalize ==
  htmlToMarkdownRun /\ UNCHANGED <<hashOthers, hashVars, aHist, langCache, listing, ops>>

SpecNormalize == InitNormalize /\ [][NextNormalize]_vars

(***************************************************************************)
(* Properties of sitemap resolution                                        *)
(***************************************************************************)
RECURSIVE IndexChain(_, _)
\* s heads a chain of n+1 sitemap indexes, each listing the next one
IndexChain(s, n) ==
  /\ web[s].kind = "index"
  /\ n > 0 => \E i \in 1..Len(web[s].children) :
                 IndexChain(web[s].children[i], n - 1)

RECURSIVE Leaves(_, _)
\* the page descriptors under sitemap s called at depth d: nothing when the
\* call fails, the urlset's entries, or the leaves of the children in
\* sibling order
Leaves(s, d) ==
  IF d >= rMaxDepth \/ web[s].kind = "fail" THEN <<>>
  ELSE IF web[s].kind = "urlset" THEN web[s].urls
  ELSE LET cs == web[s].children
           cat[i \in 0..Len(cs)] ==
             IF i = 0 THEN <<>> ELSE cat[i - 1] \o Leaves(cs[i], d + 1)
       IN cat[Len(cs)]

\* C6: when the root is an index whose children are indexes nested deeper
\* than maxDepth, the whole resolution fails with the maximum-depth error.
C6_DepthGuardFatal ==
  (rResult.done /\ IndexChain(RootSitemap, rMaxDepth))
    => (~rResult.ok /\ rResult.err = DepthError)

\* C7: when the root is a sitemap index, resolution succeeds and returns the
\* depth-first, sibling-ordered concatenation of the page descriptors of the
\* children that resolved; children that fail contribute nothing.
C7_ChildFailuresNonFatal ==
  (rResult.done /\ rMaxDepth >= 1 /\ web[RootSitemap].kind = "index"
     /\ Len(web[RootSitemap].children) >= 1)
    => (rResult.ok /\ rResult.urls = Leaves(RootSitemap, 0))

\* an index of two children, the first failing to fetch and the second a
\* non-empty urlset, has been resolved to the second child's entries
C7_Witness ==
  /\ rResult.done /\ rResult.ok
  /\ web[RootSitemap].kind = "index"
  /\ Len(web[RootSitemap].children) = 2
  /\ web[web[RootSitemap].children[1]].kind = "fail"
  /\ web[web[RootSitemap].children[2]].kind = "urlset"
  /\ rResult.urls # <<>>
  /\ rResult.urls = web[web[RootSitemap].children[2]].urls

(***************************************************************************)
(* Properties of the fetch strategy chain                                  *)
(***************************************************************************)
\* positions of cLog that are strategy attempts (not backoff sleeps)
AttemptIdx == {i \in 1..Len(cLog) : cLog[i].method # "wait"}
Tried(m) == \E i \in AttemptIdx : cLog[i].method = m
StrategyRank(m) == IF m = "jina" THEN 1 ELSE IF m = "browser" THEN 2 ELSE 3

\* C9: strategies are attempted in the order reader service, rendered
\* browser, direct fetch; a strategy is attempted only if enabled and only
\* after every earlier enabled strategy was attempted and failed; nothing is
\* attempted after a success, and the result returned is the first success.
C9_ChainOrder ==
  /\ \A i, j \in AttemptIdx :
       i < j => /\ StrategyRank(cLog[i].method) <= StrategyRank(cLog[j].method)
                /\ ~cLog[i].ok
  /\ \A i, j \in AttemptIdx :
       (i # j /\ cLog[i].method = cLog[j].method) => cLog[i].method = "fetch"
  /\ Tried("jina") => cOpts.useJinaReader
  /\ Tried("browser") => cOpts.useBrowser
  /\ (Tried("browser") \/ Tried("fetch")) /\ cOpts.useJinaReader => Tried("jina")
  /\ Tried("fetch") /\ cOpts.useBrowser => Tried("browser")
  /\ \A i \in AttemptIdx :
       cLog[i].ok => /\ cResult.done /\ cResult.success
                     /\ cResult.method = cLog[i].method
  /\ (cResult.done /\ cResult.success) => \E i \in AttemptIdx : cLog[i].ok

\* all three strategies enabled: the first two failed, the direct fetch
\* failed once and then succeeded, and that success is what was returned
C9_Witness ==
  /\ cResult.done /\ cResult.success /\ cResult.method = "fetch"
  /\ cOpts.useJinaReader /\ cOpts.useBrowser
  /\ Len(cLog) = 5
  /\ cLog[1] = Attempt("jina", FALSE)
  /\ cLog[2] = Attempt("browser", FALSE)
  /\ cLog[3] = Attempt("fetch", FALSE)
  /\ cLog[5] = Attempt("fetch", TRUE)

\* C10: for every combination of option values, scrapePage reports failure
\* only after at least one direct-fetch attempt.
C10_FetchAlwaysAttempted ==
  (cResult.done /\ ~cResult.success) => Tried("fetch")

C2_LastWriteWins ==
  [][\A p \in Procs :
       (aPc[p] = "storeResp" /\ aPc'[p] # "storeResp")
         => response'[hashUrl(aUrl[p])] =
              [present |-> TRUE, prompt |-> aPrompt[p], response |-> aResp[p]]
    ]_vars

\* both callers missed the cache for the same URL, both invoked the
\* completion function and got different texts, both wrote; the entry holds
\* the text of a2, whose write replaced that of a1
C2_Witness ==
  /\ aPc["a1"] = "done" /\ aPc["a2"] = "done"
  /\ aUrl["a1"] = aUrl["a2"]
  /\ aCalled["a1"] = 1 /\ aCalled["a2"] = 1
  /\ aResult["a1"].success /\ ~aResult["a1"].fromCache
  /\ aResult["a2"].success /\ ~aResult["a2"].fromCache
  /\ aResult["a1"].response # aResult["a2"].response
  /\ response[hashUrl(aUrl["a2"])].present
  /\ response[hashUrl(aUrl["a2"])].response = aResult["a2"].response

\* C3: when the latest scrapeAndCache call for a URL reported success (and
\* its content was not removed since), the next call for that URL is served
\* from the cache: no strategy chain run, same markdown.
C3_SecondCallHitsCache ==
  [][(/\ sPc = "check"
      /\ sPrev.url = sUrl /\ sPrev.success
      /\ sPc' # "check")
       => /\ sPc' = "done"
          /\ cPc' = "idle"
          /\ sResult'.success
          /\ sResult'.markdown = sPrev.markdown
    ]_vars

(***************************************************************************)
(* Properties of indexing, the pipeline and the purge                      *)
(***************************************************************************)
\* C4: when indexSitemap runs with skipExisting on a sitemap with the same
\* maxUrls as the run before it, and no purge deleted anything since that
\* run started, it reports indexedUrls = 0 and skippedUrls = totalUrls and
\* leaves the size of the domain index as it found it.
C4_IdempotentIndexing ==
  (/\ ix.pc = "done" /\ ix.skipExisting /\ ix.clean
   /\ ixPrev.ok
   /\ ixPrev.sitemapUrl = ix.sitemapUrl
   /\ ixPrev.maxUrls = ix.maxUrls)
    => /\ ix.result.indexedUrls = 0
       /\ ix.result.skippedUrls = ix.result.totalUrls
       /\ getUrlCount(extractDomain(ix.sitemapUrl)) = ix.size0

\* a second skipExisting run over the two-URL sitemap has finished with
\* both URLs skipped
C4_Witness ==
  /\ ix.pc = "done" /\ ix.skipExisting /\ ix.clean
  /\ ixPrev.ok
  /\ ixPrev.sitemapUrl = ix.sitemapUrl
  /\ ixPrev.maxUrls = ix.maxUrls
  /\ ix.result.success
  /\ ix.result.totalUrls = 2
  /\ ix.result.skippedUrls = 2
  /\ ix.result.indexedUrls = 0
  /\ getUrlCount(extractDomain(ix.sitemapUrl)) = 2

\* the elements of a sequence
Range(q) == {q[n] : n \in DOMAIN q}

\* C5: a pipeline run with maxUrls = m over a sitemap of n > m distinct
\* URLs, not disturbed by a purge, indexes exactly the sitemap's first m
\* URLs, and its scrape stage and its AI stage each attempt exactly those
\* m URLs.
C5_MaxUrlsBoundsEveryStage ==
  (/\ pl.pc = "done" /\ pl.result.success /\ pl.clean
   /\ Len(site[pl.sitemapUrl]) > pl.maxUrls
   /\ Cardinality(Range(site[pl.sitemapUrl])) = Len(site[pl.sitemapUrl]))
    => LET firstM == {site[pl.sitemapUrl][n] : n \in 1..pl.maxUrls} IN
       /\ pl.result.indexing.totalUrls = pl.maxUrls
       /\ pl.result.scraping.attempted = pl.maxUrls
       /\ Range(pl.urls) = firstM
       /\ pl.result.aiProcessing.attempted = pl.maxUrls
       /\ Range(pl.urlRecords) = firstM

\* C8: at the step that completes deleteDomainData(d), d is not in
\* getDomains() and getUrlCount(d) is 0, whatever ran before or beside it.
C8_PurgeRemovesDomain ==
  [][\A d \in Domains :
       (pgPc = "delete" /\ pgDomain = d /\ pgPc' = "idle")
         => (d \notin getDomains' /\ getUrlCount(d)' = 0)]_vars

\* a purge has completed while indexSitemap was running and had already
\* indexed a URL; the run's domain is listed nowhere and its index is empty
C8_Witness ==
  /\ ix.pc = "items" /\ ~ix.clean
  /\ ix.indexedUrls >= 1
  /\ pgPc = "idle"
  /\ extractDomain(ix.sitemapUrl) \notin getDomains
  /\ getUrlCount(extractDomain(ix.sitemapUrl)) = 0

\* C11: re-indexing keeps the insertion order: when indexUrl runs for a key
\* that is already a member of urls:{domain}, its ZADD leaves that key's
\* score as it was.
C11_ReindexKeepsScore ==
  [][\A k \in Keys :
       LET d == extractDomain(ix.sitemapUrl) IN
       (/\ ix.pc = "items"
        /\ ix'.pc = "items"
        /\ ix'.indexedUrls = ix.indexedUrls + 1
        /\ k \in Members(d))
         => urlList'[d][k] = urlList[d][k]]_vars

\* C12: index/record consistency: whenever no indexing run, pipeline run or
\* purge is under way, a key is a member of urls:{domain} exactly when a
\* record url:{key} exists whose domain field is that domain.
C12_IndexRecordConsistent ==
  (ix.pc = "idle" /\ pl.pc = "idle" /\ pgPc = "idle")
    => \A d \in Domains, k \in Keys :
         k \in Members(d) <=> (urlRec[k].present /\ urlRec[k].domain = d)

\* C13: a record, once created, stays and keeps url, domain and indexed
\* timestamp until a purge deletes keys, and its processed and error fields
\* change only when markUrlProcessed writes the outcome of a fetch attempt.
C13_RecordStable ==
  [][\A k \in Keys :
       (urlRec[k].present /\ pgPc # "delete")
         => /\ urlRec'[k].present
            /\ urlRec'[k].url = urlRec[k].url
            /\ urlRec'[k].domain = urlRec[k].domain
            /\ urlRec'[k].indexed = urlRec[k].indexed
            /\ (pl.pc # "mark"
                  => /\ urlRec'[k].processed = urlRec[k].processed
                     /\ urlRec'[k].error = urlRec[k].error)]_vars

\* C14: the write of markUrlProcessed changes only the processed and error
\* fields of an existing record and no other key; where the key has no
\* record, markUrlProcessed creates none and changes nothing.
C14_MarkProcessedFrame ==
  [][/\ (pl.pc = "mark" /\ pl'.pc = "scrape")
          => LET k == hashUrl(pl.urlRecord.url) IN
             /\ \A h \in Keys \ {k} : urlRec'[h] = urlRec[h]
             /\ UNCHANGED <<urlList, content, prompt, response,
                            sitemapMeta, status>>
             /\ IF urlRec[k].present
                THEN urlRec'[k] = [urlRec[k] EXCEPT
                                     !.processed = urlRec'[k].processed,
                                     !.error = urlRec'[k].error]
                ELSE urlRec'[k] = urlRec[k]
     /\ (pl.pc = "scraping" /\ pl'.pc = "scrape")
          => UNCHANGED storeVars]_vars

\* C15: processPage fails with the content-missing error and writes nothing
\* when no content is cached for the key, whether or not a prompt entry
\* exists; with content cached it returns the cached prompt as it is when
\* there is one, and otherwise generates the prompt from the cached content,
\* stores it and returns it.
C15_ProcessPage ==
  [][\A p \in Procs :
       LET k == hashUrl(aUrl[p]) IN
       /\ (aPc[p] = "getContent" /\ aPc'[p] # "getContent")
            => /\ UNCHANGED storeVars
               /\ IF content[k].present
                  THEN aPc'[p] = "getPrompt" /\ aContent'[p] = content[k]
                  ELSE aPc'[p] = "done"
                       /\ aResult'[p] = AiFailed(ContentMissing)
       /\ (aPc[p] = "getPrompt" /\ aPc'[p] # "getPrompt")
            => /\ UNCHANGED storeVars
               /\ IF prompt[k].present
                  THEN aPc'[p] = "callAI" /\ aPrompt'[p] = prompt[k]
                  ELSE aPc'[p] = "storePrompt"
                       /\ aPrompt'[p] = generatePrompt(aContent[p])
       /\ (aPc[p] = "storePrompt" /\ aPc'[p] # "storePrompt")
            => /\ aPc'[p] = "callAI"
               /\ aPrompt'[p] = aPrompt[p]
               /\ prompt' = [prompt EXCEPT ![k] = aPrompt[p]]
               /\ UNCHANGED <<urlRec, urlList, content, response,
                              sitemapMeta, status>>]_vars

\* a call has failed for missing content while a prompt entry exists
C15_Witness ==
  \E p \in Procs :
    /\ aPc[p] = "done"
    /\ aResult[p] = AiFailed(ContentMissing)
    /\ prompt[hashUrl(aUrl[p])].present
    /\ ~content[hashUrl(aUrl[p])].present

\* C16 as stated: clearCache(u) deletes the prompt entry and the response
\* entry of u's key and nothing else, and the first processWithAI(u) after
\* it invokes the completion function.
C16_ClearForcesInvocation ==
  [][/\ (clPc = "idle" /\ clPc' = "delResp")
          => /\ prompt' = [prompt EXCEPT ![hashUrl(clUrl')] = NoPrompt]
             /\ UNCHANGED <<urlRec, urlList, content, response,
                            sitemapMeta, status>>
     /\ (clPc = "delResp" /\ clPc' = "idle")
          => /\ response' = [response EXCEPT ![hashUrl(clUrl)] = NoResponse]
             /\ UNCHANGED <<urlRec, urlList, content, prompt,
                            sitemapMeta, status>>
     /\ \A p \in clHist'.procs :
          aPc'[p] = "done" => aCalled'[p] = 1]_vars

\* C16: clearCache(u) deletes the prompt entry and the response entry of
\* u's key and nothing else; the first processWithAI(u) after it, no
\* response having been stored for the key in between, does not answer
\* from the cache: it invokes the completion function when the key's
\* content is cached and fails with the content-missing error, without
\* invoking it, when the content is gone.
C16_ClearForcesMiss ==
  [][/\ (clPc = "idle" /\ clPc' = "delResp")
          => /\ prompt' = [prompt EXCEPT ![hashUrl(clUrl')] = NoPrompt]
             /\ UNCHANGED <<urlRec, urlList, content, response,
                            sitemapMeta, status>>
     /\ (clPc = "delResp" /\ clPc' = "idle")
          => /\ response' = [response EXCEPT ![hashUrl(clUrl)] = NoResponse]
             /\ UNCHANGED <<urlRec, urlList, content, prompt,
                            sitemapMeta, status>>
     /\ \A p \in clHist.procs :
          /\ (aPc[p] = "getResp" /\ aPc'[p] # "getResp")
               => aPc'[p] = "getContent"
          /\ (aPc[p] = "getContent" /\ aPc'[p] # "getContent")
               => IF content[hashUrl(aUrl[p])].present
                  THEN aPc'[p] = "getPrompt"
                  ELSE aResult'[p] = AiFailed(ContentMissing)
                       /\ aCalled'[p] = 0
          /\ aPc'[p] = "done"
               => ~aResult'[p].fromCache
                  /\ (aCalled'[p] = 1
                        \/ aResult'[p] = AiFailed(ContentMissing))]_vars

\* the first call after a clear has invoked the completion function and
\* stored its response
C16_Witness ==
  \E p \in clHist.procs :
    /\ aPc[p] = "done" /\ aCalled[p] = 1
    /\ aResult[p].success /\ ~aResult[p].fromCache
    /\ response[hashUrl(aUrl[p])].present
    /\ response[hashUrl(aUrl[p])].response = aResult[p].response

\* the candidates of one discovery in the order claimed: the Sitemap: lines
\* of robots.txt in file order, then the valid conventional locations
Candidates ==
  dv.robotsSitemaps \o SelectSeq(getCommonSitemapUrls(dv.domain),
                                 validateSitemapUrl)

\* C17: when autoDiscoverAndIndex returns, the candidates it gave to
\* indexSitemap are the first ones of the claimed order, each but the last
\* having failed; a successful result is that of the last one tried, and a
\* failure is returned only after every candidate has been tried.
C17_DiscoveryFallThrough ==
  dv.pc = "done"
    => LET n == Len(dvTried) IN
       /\ n <= Len(Candidates)
       /\ \A m \in 1..n : dvTried[m].url = Candidates[m]
       /\ \A m \in 1..(n - 1) : ~dvTried[m].ok
       /\ IF dv.result.success
          THEN n >= 1 /\ dvTried[n].ok
          ELSE n = Len(Candidates) /\ \A m \in 1..n : ~dvTried[m].ok

\* C18: within a pipeline run the stages follow one another: while a scrape
\* is under way indexSitemap has returned its successful result (its last
\* record and its terminal status are written), and while processWithAI is
\* under way scrapeMultiple has scraped, counted and marked every URL.
C18_StagesSequential ==
  /\ (pl.pc \in {"scrape", "scraping", "mark"} \/ sPc # "idle" \/ cPc # "idle")
       => /\ ix.pc = "idle"
          /\ pl.indexResult.done /\ pl.indexResult.success
          /\ aPc[AiCaller] = "idle"
  /\ (pl.pc \in {"aiStatus", "ai", "aiWait"} \/ aPc[AiCaller] # "idle")
       => /\ ix.pc = "idle" /\ sPc = "idle" /\ cPc = "idle"
          /\ pl.j = Len(pl.urls) + 1
          /\ pl.successCount + pl.failedCount = Len(pl.urls)
          /\ pl.urlRecord = NoUrlRecord

\* the completion function is about to be called after two URLs were
\* scraped, one of them without success
C18_Witness ==
  /\ pl.pc = "aiWait" /\ aPc[AiCaller] = "callAI"
  /\ Len(pl.urls) = 2 /\ pl.successCount = 1 /\ pl.failedCount = 1

\* C19: when indexSitemap returns a failure to a pipeline run, the run ends
\* there: its result has success = false and carries the indexing errors in
\* its error list, and no URL was scraped and no processWithAI call made.
C19_IndexFailureAborts ==
  [][(pl.pc = "index" /\ pl'.pc # "index" /\ ~ix.result.success)
       => /\ pl'.pc = "done"
          /\ pl'.result.done /\ ~pl'.result.success
          /\ \A n \in DOMAIN ix.result.errors :
               \E m \in DOMAIN pl'.result.errors :
                 pl'.result.errors[m] = ix.result.errors[n]
          /\ ix.result.errors # <<>>
          /\ pl'.result.scraping.attempted = 0
          /\ pl'.result.aiProcessing.attempted = 0
          /\ pl'.urls = <<>> /\ pl'.urlRecords = <<>>
          /\ sPc' = "idle" /\ cPc' = "idle" /\ aPc'[AiCaller] = "idle"]_vars

\* a run has ended on an indexing failure and reports the parse error
C19_Witness ==
  /\ pl.pc = "done" /\ ~pl.result.success
  /\ pl.result.errors = <<ParseError, IndexingFailed>>
  /\ status[extractDomain(pl.sitemapUrl)].status = "error"

\* C20: a failure on one URL does not end a stage and is reported: a run
\* that returns success has attempted every URL of its scrape list and of
\* its AI list, and each URL that failed to scrape or to process has an
\* entry in the error list of the result.
C20_ItemFailuresReported ==
  (pl.pc = "done" /\ pl.result.success)
    => /\ pl.result.scraping.attempted = Len(pl.urls)
       /\ pl.result.scraping.successful + pl.result.scraping.failed
            = Len(pl.urls)
       /\ pl.result.aiProcessing.successful + pl.result.aiProcessing.failed
            = Len(pl.urlRecords)
       /\ Len(pl.result.errors)
            >= pl.result.scraping.failed + pl.result.aiProcessing.failed

\* C21: hashUrl depends on the literal string alone: a call returns 16 hex
\* digits, the same ones an earlier call returned for the same string
\* whatever the store holds, and strings that differ only in a trailing
\* slash, in the case of the scheme or in the order of the query get
\* different keys.
C21_HashUrlLiteral ==
  /\ hv.pc = "done"
       => /\ Len(hv.key) = 16
          /\ \A c \in 1..16 : \E n \in 1..16 : hv.key[c] = HexDigits[n]
          /\ hvKeys[hv.url] # <<>> => hv.key = hvKeys[hv.url]
          /\ \A u \in HashInputs \ {hv.url} : hv.key # hvKeys[u]
  /\ hvKeys[UrlPlain] \in
       {<<>>, <<"b", "3", "f", "5", "6", "a", "0", "6",
                "d", "9", "7", "8", "4", "b", "3", "f">>}

\* the string with the trailing slash has been hashed after the one
\* without it, on an indexed store
C21_Witness ==
  /\ hv.pc = "done" /\ hv.url = UrlSlash
  /\ hvKeys[UrlPlain] # <<>> /\ hv.key # hvKeys[UrlPlain]
  /\ urlRec["k1"].present
  /\ hv.key = <<"0", "4", "e", "d", "d", "9", "5", "f",
                "c", "d", "7", "f", "e", "b", "8", "0">>

C24_ResponseAfterContent ==
  [][\A k \in Keys :
       (response'[k] # response[k] /\ response'[k].present)
         => /\ \E p \in Procs :
                 /\ aPc[p] = "storeResp" /\ aPc'[p] = "done"
                 /\ hashUrl(aUrl[p]) = k
                 /\ aContent[p].present
                 /\ aPrompt[p].present
                 /\ response'[k].prompt = aPrompt[p]
            /\ content[k].present]_vars

\* the direct-fetch attempts and backoff sleeps of the running scrapePage
\* call, in the order they happened
FetchLog == SelectSeq(cLog, LAMBDA e : e.method \in {"fetch", "wait"})

\* C25: the direct-fetch strategy makes at most `retries` attempts, none
\* after a successful one; failed attempt k (from 0) is followed by a sleep
\* of 1000 * 2^k ms before attempt k + 1, and the last of the `retries`
\* attempts is followed by no sleep: the strategy gives up only after
\* `retries` failed attempts.
C25_BoundedBackoff ==
  LET n == Len(FetchLog) IN
  /\ \A i \in 1..n :
       IF i % 2 = 1
       THEN FetchLog[i].method = "fetch" /\ (i < n => ~FetchLog[i].ok)
       ELSE /\ FetchLog[i].method = "wait"
            /\ FetchLog[i].delay = 1000 * (2 ^ ((i \div 2) - 1))
            /\ i \div 2 < cOpts.retries
  /\ (n + 1) \div 2 <= cOpts.retries
  /\ (cPc = "done" /\ cResult.method = "fetch")
       => IF cResult.success
          THEN n >= 1 /\ FetchLog[n].method = "fetch" /\ FetchLog[n].ok
          ELSE /\ n = (IF cOpts.retries = 0 THEN 0 ELSE 2 * cOpts.retries - 1)
               /\ \A i \in 1..n : FetchLog[i].method = "fetch" => ~FetchLog[i].ok

\* three attempts have failed with sleeps of one and two seconds between
\* them, and the strategy has given up without a third sleep
C25_Witness ==
  /\ cPc = "done" /\ ~cResult.success /\ cOpts.retries = 3
  /\ Len(FetchLog) = 5
  /\ FetchLog[2].delay = 1000 /\ FetchLog[4].delay = 2000
  /\ FetchLog[5].method = "fetch"

\* C26: a fetch that an upstream leaves unanswered, in whichever strategy,
\* is ended by the timeout, and scrapePage goes on to return a result; a
\* direct-fetch attempt ended so is logged as one failed attempt.
C26_FetchesBounded ==
  /\ (cPc \in {"jinaWaiting", "browserWaiting", "fetchWaiting"})
        ~> (cPc = "done" /\ cResult.done)
  /\ [][(cPc = "fetchWaiting" /\ cPc' # "fetchWaiting")
          => /\ cLog' = Append(cLog, Attempt("fetch", FALSE))
             /\ cPc' \in {"backoff", "fetch"}
             /\ ~cResult'.done]_vars

\* C27: with a positive delay scrapeMultiple sleeps exactly between
\* consecutive requests: j - 1 delays are over when request j is made, and
\* n - 1 of them when the n URLs are done, none following the last request.
C27_DelayBetweenRequests ==
  (ScrapeDelay > 0 /\ pl.pc \notin {"idle", "index"} /\ pl.j >= 1)
    => /\ pl.pc = "scraping" => pl.slept = pl.j - 1
       /\ pl.j = Len(pl.urls) + 1
            => pl.slept = (IF Len(pl.urls) = 0 THEN 0 ELSE Len(pl.urls) - 1)

C29_StatusProtocol ==
  ix.pc # "idle"
    => LET w == ix.wrote
           n == Len(w) IN
       /\ n >= 1 /\ w[1] = "parsing"
       /\ \A m \in 2..n :
            /\ w[m] \in {"indexing", "completed", "error"}
            /\ w[m - 1] \in {"parsing", "indexing"}
            /\ w[m] = "completed" => w[m - 1] = "indexing"
       /\ ix.pc = "parse" => w = <<"parsing">>
       /\ ix.pc \in {"batch", "items"} => n >= 2 /\ w[n] = "indexing"
       /\ ix.pc = "done"
            => /\ w[n] = (IF ix.result.success THEN "completed" ELSE "error")
               /\ ~ix.result.success => w = <<"parsing", "error">>
       /\ ix.clean
            => status[extractDomain(ix.sitemapUrl)].status = w[n]

\* a run over two batches has written parsing, indexing three times and
\* completed, and is about to return
C29_Witness ==
  /\ ix.pc = "done" /\ ix.result.success
  /\ ix.wrote = <<"parsing", "indexing", "indexing", "indexing", "completed">>

\* the largest number of children an index of the web lists
Fan ==
  LET lens == {Len(web[s].children) : s \in Sitemaps}
  IN  CHOOSE n \in lens : \A m \in lens : m <= n

RECURSIVE FetchBound(_)
\* the sitemaps a tree of depth d holds when every index lists Fan
\* children: 1 + Fan + ... + Fan^(d-1)
FetchBound(d) == IF d = 0 THEN 0 ELSE 1 + Fan * FetchBound(d - 1)

RECURSIVE CallWork(_)
\* the steps a call entered at depth d can take at most, its children's
\* included
CallWork(d) ==
  IF d >= rMaxDepth THEN 1 ELSE 2 + Fan * (1 + CallWork(d + 1))

\* the steps the calls on the stack can still take at most
WorkLeft ==
  LET left(f) == IF f.phase = "enter" THEN CallWork(f.depth)
                 ELSE 1 + Len(f.kids) * (1 + CallWork(f.depth + 1))
      sums[n \in 0..Len(rStack)] ==
        IF n = 0 THEN 0 ELSE sums[n - 1] + left(rStack[n])
  IN  sums[Len(rStack)]

\* C30: on every sitemap graph, an index that lists itself and cycles of
\* indexes included, parseRecursive comes to return or to fail: every step
\* of a resolution lowers the number of steps it can still take, and a
\* resolution that has not finished has a step to take; it fetches no
\* sitemap at depth maxDepth or deeper, and no more sitemaps than a tree of
\* depth maxDepth holds.
C30_ResolutionTerminates ==
  /\ [][WorkLeft' < WorkLeft]_vars
  /\ [](rResult.done <=> rStack = <<>>)
  /\ [](\A n \in 1..Len(rFetched) : rFetched[n].depth < rMaxDepth)
  /\ [](Len(rFetched) <= FetchBound(rMaxDepth))

\* the root index lists itself twice: with maxDepth 3 the resolution has
\* fetched it at depths 0, 1 and 2, seven times in all, and has returned
C30_Witness ==
  /\ rResult.done /\ rStack = <<>>
  /\ web[RootSitemap].kind = "index"
  /\ web[RootSitemap].children = <<RootSitemap, RootSitemap>>
  /\ rMaxDepth = 3
  /\ Len(rFetched) = 7
  /\ \E n \in 1..7 : rFetched[n].depth = 2

\* C31: when scrapeMultiple has marked a URL, no purge having run beside
\* it, the record's processed flag is TRUE exactly when content is stored
\* for the key, and a record left unprocessed carries the failure as its
\* error, the strategies having all failed and no content being stored.
C31_LedgerAgrees ==
  [][(pl.pc = "mark" /\ pl'.pc = "scrape" /\ pl.clean /\ pgPc = "idle")
       => LET k == hashUrl(pl.urlRecord.url) IN
          /\ urlRec'[k].present
          /\ urlRec'[k].processed <=> content'[k].present
          /\ ~urlRec'[k].processed => urlRec'[k].error # ""]_vars

\* no processWithAI, scrapeAndCache or clearCache call is under way
WritersIdle ==
  /\ \A p \in Procs : aPc[p] = "idle"
  /\ sPc = "idle" /\ clPc = "idle"

\* C32: when deleteDomainData(d) completes with no writer running beside
\* it, every key that was in d's index has no record, no content, no
\* prompt entry and no response entry, and d's index, sitemap metadata and
\* status are gone.
C32_PurgeRemovesArtifacts ==
  [][\A d \in Domains :
       (/\ pgPc = "delete" /\ pgDomain = d /\ pgPc' = "idle"
        /\ WritersIdle /\ pgHashes = Members(d))
         => /\ \A k \in Members(d) :
                 /\ ~urlRec'[k].present /\ ~content'[k].present
                 /\ ~prompt'[k].present /\ ~response'[k].present
            /\ Members(d)' = {}
            /\ ~sitemapMeta'[d].present
            /\ ~status'[d].present]_vars

\* deleteDomainData(dA) has read the index and is about to delete, no
\* writer running: k1 is in the index with its record, content, prompt and
\* response stored
C32_Witness ==
  /\ pgPc = "delete" /\ pgDomain = "dA" /\ WritersIdle
  /\ pgHashes = Members("dA") /\ "k1" \in pgHashes
  /\ urlRec["k1"].present /\ content["k1"].present
  /\ prompt["k1"].present /\ response["k1"].present

\* C33: the semantic index never holds two entries for one page key,
\* whatever scrapeAndCache calls (fresh fetches and cache hits) were made.
C33_OneEntryPerKey ==
  \A k \in Keys : langCache.entries[k] <= 1

\* C34: in every state that calls of processWithAI, processPage and
\* clearCache reach in any interleaving, the content of the key staying as
\* stored, a key that has both a prompt entry and a response entry has the
\* prompt entry's prompt in its response entry.
C34_PromptResponseAgree ==
  \A k \in Keys :
    (prompt[k].present /\ response[k].present)
      => response[k].prompt = prompt[k]

\* k1 has a prompt and a response, written after a clearCache, while
\* another caller is about to write the prompt again
C34_Witness ==
  /\ prompt["k1"].present /\ response["k1"].present
  /\ ops = MaxAiCalls
  /\ \E p \in Procs :
       aPc[p] \in {"storePrompt", "pageStore"} /\ aUrl[p] = "u1"

\* C35: deleteDomainData(d) removes no record, content, prompt entry or
\* response entry whose key is a member of another domain's index.
C35_PurgeConfined ==
  [][\A d \in Domains : \A e \in Domains \ {d} :
       (pgPc = "delete" /\ pgDomain = d /\ pgPc' = "idle")
         => \A k \in Members(e) :
              /\ urlRec[k].present => urlRec'[k].present
              /\ content[k].present => content'[k].present
              /\ prompt[k].present => prompt'[k].present
              /\ response[k].present => response'[k].present]_vars

\* C37: every ProcessingStatus that an indexing run or an AI-processing run
\* has written has progress.completed + progress.failed <= progress.total.
C37_ProgressConsistent ==
  \A d \in Domains :
    status[d].present
      => status[d].completed + status[d].failed <= status[d].total

\* C38: when an indexSitemap run with skipExisting has succeeded and no
\* purge deleted anything since it started, indexedUrls is the number of
\* keys that had no record before the run and have one after it, and the
\* domain index has grown by indexedUrls.
C38_IndexedCountsNew ==
  (ix.pc = "done" /\ ix.result.success /\ ix.skipExisting /\ ix.clean)
    => /\ ix.result.indexedUrls =
            Cardinality({k \in Keys : k \notin ix.recs0 /\ urlRec[k].present})
       /\ getUrlCount(extractDomain(ix.sitemapUrl))
            = ix.size0 + ix.result.indexedUrls

\* C40: a PageRecord with processed = true carries no error.
C40_NoStaleError ==
  \A k \in Keys :
    (urlRec[k].present /\ urlRec[k].processed) => urlRec[k].error = ""

\* C36: whenever a key has both a stored content and a prompt entry, the
\* prompt is the one generated from that content.
C36_PromptFresh ==
  \A k \in Keys :
    (content[k].present /\ prompt[k].present)
      => prompt[k] = generatePrompt(content[k])

\* the keys at ranks a..b of urls:{d}, in ascending order of score
RankedKeys(d, a, b) ==
  LET ks == {k \in Members(d) : ZRank(d, k) >= a /\ ZRank(d, k) <= b}
  IN [i \in 1..Cardinality(ks) |->
        CHOOSE k \in ks :
          Cardinality({j \in ks : ZBefore(d, j, k)}) = i - 1]

\* C39: getUrlsByDomain(domain, limit, offset) returns at most limit
\* records, the existing records of the keys at index positions
\* offset .. offset+limit-1 in ascending order, and none when limit = 0.
C39_PaginationBound ==
  listing.done
    => /\ Len(listing.records) <= listing.limit
       /\ listing.records =
            SeqFilterPresent(RankedKeys(listing.domain, listing.offset,
                               listing.offset + listing.limit - 1))
       /\ listing.limit = 0 => listing.records = <<>>
====
